---- MODULE Spec2Model ----
(***************************************************************************)
(* State-machine model of the API test harness: the ApiClient wrapper, the *)
(* TestDataManager, and the coupon / category suites that drive the remote *)
(* backend and keep fixture ledgers (testCouponsToCleanup,                 *)
(* generatedCouponIds, createdCategoryIds).                                *)
(*                                                                         *)
(* A "run" is one execution of one spec file by one Playwright worker      *)
(* (one of the configured browser projects).  Each action of a run is the  *)
(* code of a test between two awaited API calls: it issues one call, the   *)
(* backend answers, and the code up to the next call is executed.  The     *)
(* backend is outside the repository: it is a store of entities whose      *)
(* answers are chosen nondeterministically among the answers the suites    *)
(* branch on.                                                              *)
(***************************************************************************)
EXTENDS Integers, Sequences, FiniteSets, TLC

\* ------------------------------------------------------------------ bounds
NumRuns == 2        \* worker processes that may run at the same time
MaxClock == 1       \* Date.now() returns a value in 0..MaxClock
MaxPre == 2         \* entities of each kind that exist before the run
MaxIds == 4         \* identifiers the backend hands out (pre-existing included)
MaxList == 3        \* records in a list handed to the TestDataManager on its own

Runs == 1 .. NumRuns

VARIABLES
  now,                   \* last value Date.now() returned
  coupons,               \* backend: the coupons that exist
  categories,            \* backend: the categories that exist
  nextId,                \* backend: next identifier to hand out
  suite,                 \* suite[r]: the spec file run r executes ("none": idle)
                         \*   and the tests of it the runner was asked to run
  pc,                    \* pc[r]: <<test, step>> of run r
  loc,                   \* loc[r]: local variables of the running test
  body,                  \* body[r]: how the test body ended
  result,                \* result[r]: outcome of the test once it has ended
  testDataManager,       \* testDataManager[r]: the file's TestDataManager
  extractedGroupIds,     \* describe-level variables, one copy per run
  existingCouponCodes,
  testCouponsToCleanup,
  generatedCouponIds,
  generatedCouponCodes,
  categoryId,
  createdCategoryIds,
  delLog,                \* history: identifiers run r sent a DELETE for
  madeHere,              \* history: ids returned by creates of the running test
  everMade,              \* history: ids returned by creates of run r
  submitted              \* history: custom codes the running test submitted

backendVars == <<coupons, categories, nextId>>
runVars == <<suite, pc, loc, body, result>>
couponVars == <<testDataManager, extractedGroupIds, existingCouponCodes,
                testCouponsToCleanup, generatedCouponIds, generatedCouponCodes>>
categoryVars == <<categoryId, createdCategoryIds>>
histVars == <<delLog, madeHere, everMade, submitted>>
vars == <<now, backendVars, runVars, couponVars, categoryVars, histVars>>

\* ------------------------------------------------------------ JS values
\* A relation field is a bare identifier string or an embedded object.
Str(s) == [t |-> "str", v |-> s, ref |-> 0]
Obj(ref, id) == [t |-> "obj", v |-> id, ref |-> ref]
Truthy(x) == x.t = "obj" \/ x.v # ""

NoCode == <<"", 0>>
SysCode(n) == <<"SYS", n>>
SysCodes == {SysCode(n) : n \in 1 .. MaxPre + 1}
NonExistentId == 0

\* payload of a response body (body.data)
ListData(s) == [kind |-> "list", recs |-> s, msg |-> ""]
RecData(rec) == [kind |-> "rec", recs |-> <<rec>>, msg |-> ""]
NullData == [kind |-> "null", recs |-> <<>>, msg |-> ""]
MsgData(m) == [kind |-> "msg", recs |-> <<>>, msg |-> m]

\* what the transport hands to ApiClient
NetErr == [neterr |-> TRUE, json |-> FALSE, status |-> 0, dstatus |-> "N/A", data |-> NullData]
Json(st, ds, d) == [neterr |-> FALSE, json |-> TRUE, status |-> st, dstatus |-> ds, data |-> d]
NoBody(st) == [neterr |-> FALSE, json |-> FALSE, status |-> st, dstatus |-> "N/A", data |-> NullData]

\* ------------------------------------------------------------ ApiClient
Thrown == [thrown |-> TRUE, status |-> 0, dstatus |-> "N/A", data |-> NullData]

\* (a variant that is not the code: a failure is returned as an envelope)
ApiResultEnvelope(raw) ==
  [thrown |-> FALSE, status |-> raw.status, dstatus |-> raw.dstatus, data |-> raw.data]

\* (a variant that is not the code: a transport status of 400 or more is thrown)
ApiResultThrowOnError(raw) ==
  IF raw.neterr \/ ~raw.json \/ raw.status >= 400
    THEN Thrown
    ELSE [thrown |-> FALSE, status |-> raw.status, dstatus |-> raw.dstatus, data |-> raw.data]

\* get / post / delete: response.json() throws on a body that is not JSON and
\* the catch block rethrows; otherwise {status, data}.
ApiResult(raw) ==
  IF raw.neterr \/ ~raw.json
    THEN Thrown
    ELSE [thrown |-> FALSE, status |-> raw.status, dstatus |-> raw.dstatus, data |-> raw.data]

ApiGet(raw) == ApiResult(raw)
ApiPost(raw) == ApiResult(raw)
ApiDelete(raw) == ApiResult(raw)

NoResp == [thrown |-> FALSE, status |-> 0, dstatus |-> "none", data |-> NullData]

Includes(s, x) == \E i \in 1 .. Len(s) : s[i] = x

\* process.env.X: unset, or a string
EnvUnset == [defined |-> FALSE, v |-> ""]
EnvVal(v) == [defined |-> TRUE, v |-> v]
\* process.env.X || ""
OrEmpty(e) == IF e.defined /\ e.v # "" THEN e.v ELSE ""

\* (a variant that is not the code: only the base URL is required)
ConstructorThrowsBaseOnly(baseUrl, token) == baseUrl = ""

\* if (!this.baseUrl || !this.token) throw new Error(...)
ConstructorThrows(baseUrl, token) == baseUrl = "" \/ token = ""

NoClient == [made |-> FALSE, baseUrl |-> "", token |-> ""]

\* new ApiClient(request): the client, or NoClient when the constructor threw
NewApiClient(env) ==
  LET baseUrl == OrEmpty(env.API_BASE_URL)
      token == OrEmpty(env.API_TOKEN)
  IN IF ConstructorThrows(baseUrl, token) THEN NoClient
     ELSE [made |-> TRUE, baseUrl |-> baseUrl, token |-> token]

\* A params object is the sequence of its <<key, value>> entries in insertion
\* order; a URL or an endpoint is the sequence of its lexical pieces.
HasTruthy(params, key) == \E i \in 1 .. Len(params) : params[i][1] = key /\ params[i][2] # ""
SetParam(params, key, value) ==
  IF \E i \in 1 .. Len(params) : params[i][1] = key
    THEN [i \in 1 .. Len(params) |->
            IF params[i][1] = key THEN <<key, value>> ELSE params[i]]
    ELSE Append(params, <<key, value>>)

\* new URLSearchParams(params).toString(): key=value joined with "&"
RECURSIVE URLSearchParams(_)
URLSearchParams(params) ==
  IF params = <<>> THEN <<>>
  ELSE <<params[1][1], "=", params[1][2]>>
         \o (IF Len(params) > 1 THEN <<"&">> ELSE <<>>) \o URLSearchParams(Tail(params))

\* (a variant that is not the code: the caller's params are used as passed)
BuildUrlNoDefault(client, endpoint, params) ==
  LET queryParams == URLSearchParams(params)
      separator == IF Includes(endpoint, "?") THEN "&" ELSE "?"
  IN <<client.baseUrl>> \o endpoint
       \o (IF queryParams # <<>> THEN <<separator>> \o queryParams ELSE <<>>)

\* _buildUrl(endpoint, params)
BuildUrl(client, endpoint, params) ==
  LET withToken == IF ~HasTruthy(params, "token")
                     THEN SetParam(params, "token", client.token) ELSE params
      queryParams == URLSearchParams(withToken)
      separator == IF Includes(endpoint, "?") THEN "&" ELSE "?"
  IN <<client.baseUrl>> \o endpoint
       \o (IF queryParams # <<>> THEN <<separator>> \o queryParams ELSE <<>>)

\* the object passed as params once _buildUrl has run: if (!params.token)
\* params.token = this.token assigns to the object it was handed
ParamsAfterBuildUrl(client, params) ==
  IF ~HasTruthy(params, "token") THEN SetParam(params, "token", client.token) ELSE params

\* the request get / post / delete hands to the transport
Request(method, url, token) == [method |-> method, url |-> url, XAPIToken |-> token]
GetRequest(client, endpoint, params) ==
  Request("GET", BuildUrl(client, endpoint, params), client.token)
PostRequest(client, endpoint) ==
  Request("POST", BuildUrl(client, endpoint, <<<<"token", client.token>>>>), client.token)
DeleteRequest(client, endpoint) ==
  Request("DELETE", BuildUrl(client, endpoint, <<<<"token", client.token>>>>), client.token)

\* the values of the token query parameters a server reads from a URL
TokenParams(url) ==
  {url[i + 3] : i \in {j \in 1 .. Len(url) - 3 :
                         url[j] \in {"?", "&"} /\ url[j + 1] = "token" /\ url[j + 2] = "="}}

\* (a variant that is not the code: a failed request is sent again)
RetriesOnFailure(raw) == raw.neterr \/ ~raw.json

\* catch (error) { console.error(...); throw error; }: nothing is sent again
Retries(raw) == FALSE

\* the error the try block of get / post / delete stops on: the one the
\* transport raised, or the one response.json() raises on a body that is not JSON
Caught(raw, transportError) ==
  IF raw.neterr THEN transportError ELSE IF ~raw.json THEN "SyntaxError" ELSE "none"

\* ------------------------------------------------------- TestDataManager
NewManager == [groupIds |-> <<>>, couponCodes |-> <<>>, coupons |-> <<>>]


ResolveGroup(g) == IF g.t = "obj" /\ g.v # "" THEN Str(g.v) ELSE g

\* (a variant that is not the code: push without the includes() test)
IngestNoIncludes(m, coupon) ==
  LET groupId == ResolveGroup(coupon.group)
      gs == IF Truthy(coupon.group) /\ Truthy(groupId)
              THEN Append(m.groupIds, groupId) ELSE m.groupIds
      cs == IF coupon.code # NoCode
              THEN Append(m.couponCodes, coupon.code) ELSE m.couponCodes
  IN [groupIds |-> gs, couponCodes |-> cs, coupons |-> Append(m.coupons, coupon)]

\* (a variant that is not the code: unshift instead of push)
IngestUnshift(m, coupon) ==
  LET groupId == ResolveGroup(coupon.group)
      gs == IF Truthy(coupon.group) /\ Truthy(groupId) /\ ~Includes(m.groupIds, groupId)
              THEN <<groupId>> \o m.groupIds ELSE m.groupIds
      cs == IF coupon.code # NoCode /\ ~Includes(m.couponCodes, coupon.code)
              THEN <<coupon.code>> \o m.couponCodes ELSE m.couponCodes
  IN [groupIds |-> gs, couponCodes |-> cs, coupons |-> Append(m.coupons, coupon)]

IngestCoupon(m, coupon) ==
  LET groupId == ResolveGroup(coupon.group)
      gs == IF Truthy(coupon.group) /\ Truthy(groupId) /\ ~Includes(m.groupIds, groupId)
              THEN Append(m.groupIds, groupId) ELSE m.groupIds
      cs == IF coupon.code # NoCode /\ ~Includes(m.couponCodes, coupon.code)
              THEN Append(m.couponCodes, coupon.code) ELSE m.couponCodes
  IN [groupIds |-> gs, couponCodes |-> cs, coupons |-> Append(m.coupons, coupon)]

RECURSIVE IngestAll(_, _)
IngestAll(m, list) ==
  IF list = <<>> THEN m ELSE IngestAll(IngestCoupon(m, Head(list)), Tail(list))

\* the argument of processCouponsData: undefined, or a response body with or
\* without a data field
NoData == [kind |-> "absent", recs |-> <<>>, msg |-> ""]
Undefined == [defined |-> FALSE, status |-> "N/A", data |-> NoData]
Body(resp) == [defined |-> TRUE, status |-> resp.dstatus, data |-> resp.data]

\* !couponsResponse.data: a missing field, null and "" are falsy
TruthyData(d) == d.kind \in {"list", "rec"} \/ (d.kind = "msg" /\ d.msg # "")
IsArray(d) == d.kind = "list"

\* the guard of processCouponsData: the call returns without touching the manager
Rejected(couponsResponse) ==
  \/ ~couponsResponse.defined
  \/ ~TruthyData(couponsResponse.data)
  \/ ~IsArray(couponsResponse.data)

\* (a variant that is not the code: the arrays are not emptied before the scan)
processAccumulating(m, couponsResponse) ==
  IF Rejected(couponsResponse) THEN m ELSE IngestAll(m, couponsResponse.data.recs)

\* (a variant that is not the code: the arrays are emptied before the guard)
processClearingFirst(m, couponsResponse) ==
  IF Rejected(couponsResponse) THEN NewManager
  ELSE IngestAll(NewManager, couponsResponse.data.recs)

processCouponsData(m, couponsResponse) ==
  IF Rejected(couponsResponse) THEN m
  ELSE IngestAll(NewManager, couponsResponse.data.recs)

\* clear()
clear(m) == NewManager

getAllGroupIds(m) == m.groupIds
getAllCouponCodes(m) == m.couponCodes
getAllCoupons(m) == m.coupons

\* a list in a caller's hands: the items it holds, and whether it is the very
\* array the manager keeps under the named field
NoList == [of |-> "none", shares |-> FALSE, items |-> <<>>, edits |-> 0]

\* (a variant that is not the code: the array itself is returned)
SpreadAlias(field, array) == [of |-> field, shares |-> TRUE, items |-> array, edits |-> 0]

\* [...array]: a new array with the same items
Spread(field, array) == [of |-> field, shares |-> FALSE, items |-> array, edits |-> 0]

\* (a variant that is not the code: the groups are counted as the total)
getStatsOfGroups(m) ==
  [totalCoupons |-> Len(m.groupIds),
   uniqueGroupIds |-> Len(m.groupIds),
   uniqueCouponCodes |-> Len(m.couponCodes)]

\* getStats()
getStats(m) ==
  [totalCoupons |-> Len(m.coupons),
   uniqueGroupIds |-> Len(m.groupIds),
   uniqueCouponCodes |-> Len(m.couponCodes)]

\* what a getRandom... call returned: null, or a group identifier, a code or a
\* coupon (the fields a call does not fill keep their empty value)
NoCoupon == [_id |-> NonExistentId, code |-> NoCode, group |-> Str(""), detail |-> "",
             amount |-> 0]
Returned(fn) == [fn |-> fn, null |-> FALSE, group |-> Str(""), code |-> NoCode,
                 coupon |-> NoCoupon]
Null(fn) == [Returned(fn) EXCEPT !.null = TRUE]
NoPick == Null("none")

\* Math.floor(Math.random() * length)
RandomIndexes(length) == 0 .. length - 1

\* (a variant that is not the code: null for an index of one element too)
getRandomGroupIdShort(m, randomIndex) ==
  IF Len(m.groupIds) <= 1 THEN Null("getRandomGroupId")
  ELSE [Returned("getRandomGroupId") EXCEPT !.group = m.groupIds[randomIndex + 1]]

getRandomGroupId(m, randomIndex) ==
  IF Len(m.groupIds) = 0 THEN Null("getRandomGroupId")
  ELSE [Returned("getRandomGroupId") EXCEPT !.group = m.groupIds[randomIndex + 1]]

getRandomCouponCode(m, randomIndex) ==
  IF Len(m.couponCodes) = 0 THEN Null("getRandomCouponCode")
  ELSE [Returned("getRandomCouponCode") EXCEPT !.code = m.couponCodes[randomIndex + 1]]

getRandomCoupon(m, randomIndex) ==
  IF Len(m.coupons) = 0 THEN Null("getRandomCoupon")
  ELSE [Returned("getRandomCoupon") EXCEPT !.coupon = m.coupons[randomIndex + 1]]

\* rawGroupIds.map(groupObj => typeof groupObj === "object" && groupObj._id ? ... )
MapGroupIds(raw) == [i \in 1 .. Len(raw) |-> ResolveGroup(raw[i])]

\* --------------------------------------------------------------- backend
CouponView(c) == [_id |-> c.id, code |-> c.code, group |-> c.group,
                  detail |-> c.detail, amount |-> c.amount]

RECURSIVE AscSeq(_)
AscSeq(S) ==
  IF S = {} THEN <<>>
  ELSE LET c == CHOOSE x \in S : \A y \in S : x.id <= y.id
       IN <<c>> \o AscSeq(S \ {c})

Reverse(s) == [i \in 1 .. Len(s) |-> s[Len(s) + 1 - i]]

\* the elements of s that no earlier position holds, in the order of s
FirstOccurrences(s) ==
  LET keep == {i \in 1 .. Len(s) : \A j \in 1 .. i - 1 : s[j] # s[i]}
      nth(k) == CHOOSE i \in keep : Cardinality({j \in keep : j < i}) = k - 1
  IN [k \in 1 .. Cardinality(keep) |-> s[nth(k)]]

CouponViews(s) == [i \in 1 .. Len(s) |-> CouponView(s[i])]

Outcome(raw) == [raw |-> raw, coupons |-> coupons, categories |-> categories, nextId |-> nextId]

\* a call that breaks down: no response at all, or a 500
Faults == {NetErr, Json(500, "ERROR", MsgData("INTERNAL_ERROR"))}

\* GET /api/coupon: the list, in one of the two orders, or a failure
ListCouponsOutcomes ==
  {Outcome(f) : f \in Faults}
    \cup {Outcome(Json(200, "OK", ListData(l))) :
            l \in {CouponViews(AscSeq(coupons)), Reverse(CouponViews(AscSeq(coupons)))}}

\* POST /api/coupon
NewCoupon(r, form, code) ==
  [id |-> nextId, code |-> code, group |-> form.group, reusable |-> form.is_reusable,
   detail |-> form.detail, amount |-> 0, owner |-> r]

CreateCouponOutcomes(r, form) ==
  {Outcome(f) : f \in Faults}
    \cup {Outcome(Json(400, "ERROR", MsgData(m))) :
            m \in {"COUPON_CODE_ALREADY_EXISTS", "INVALID_DATA"}}
    \cup {[raw |-> Json(200, "OK", ListData(<<CouponView(NewCoupon(r, form, c))>>)),
           coupons |-> coupons \cup {NewCoupon(r, form, c)},
           categories |-> categories,
           nextId |-> nextId + 1] :
            c \in IF nextId > MaxIds THEN {}
                  ELSE (IF form.custom_code = NoCode THEN {} ELSE {form.custom_code})
                         \cup SysCodes}

\* POST /api/coupon/{id}: the record after the update carries the old code or
\* the requested one; the answer may also report a record the submitted fields
\* were not applied to, or a record under another identifier
UpdateCouponOutcomes(id, form) ==
  {Outcome(f) : f \in Faults}
    \cup (IF \E c \in coupons : c.id = id
            THEN LET old == CHOOSE c \in coupons : c.id = id
                     upd(code) == [old EXCEPT !.code = code, !.detail = form.detail,
                                              !.amount = form.amount]
                 IN {[raw |-> Json(200, "OK", RecData(CouponView(upd(code)))),
                      coupons |-> (coupons \ {old}) \cup {upd(code)},
                      categories |-> categories,
                      nextId |-> nextId] :
                       code \in {old.code} \cup
                                (IF form.custom_code = NoCode THEN {} ELSE {form.custom_code})}
                    \cup {Outcome(Json(200, "OK", RecData(CouponView(old)))),
                          Outcome(Json(200, "OK",
                                       RecData([CouponView(upd(old.code))
                                                  EXCEPT !._id = NonExistentId])))}
            ELSE {Outcome(Json(200, "ERROR", NullData))})

\* GET /api/coupon/{id}
GetCouponOutcomes(id) ==
  {Outcome(f) : f \in Faults}
    \cup (IF \E c \in coupons : c.id = id
            THEN {Outcome(Json(200, "OK", RecData(CouponView(c)))) : c \in {x \in coupons : x.id = id}}
            ELSE {Outcome(Json(200, "ERROR", NullData))})

\* GET /api/coupon/{code}/search
SearchCouponOutcomes(code) ==
  {Outcome(f) : f \in Faults}
    \cup (IF \E c \in coupons : c.code = code
            THEN {Outcome(Json(200, "OK", RecData(CouponView(c)))) : c \in {x \in coupons : x.code = code}}
            ELSE {Outcome(Json(200, "ERROR", NullData))})

\* DELETE /api/coupon/{id}
DeleteCouponOutcomes(id) ==
  {Outcome(f) : f \in Faults}
    \cup {Outcome(Json(404, "ERROR", MsgData("NOT_FOUND")))}
    \cup (IF \E c \in coupons : c.id = id
            THEN {[raw |-> Json(200, "OK", NullData),
                   coupons |-> {c \in coupons : c.id # id},
                   categories |-> categories,
                   nextId |-> nextId]}
            ELSE {Outcome(Json(200, "ERROR", MsgData("NOT_FOUND")))})

CategoryView(c) == [_id |-> c.id, name |-> c.name]
CategoryViews(s) == [i \in 1 .. Len(s) |-> CategoryView(s[i])]

\* GET /api/category
ListCategoriesOutcomes ==
  {Outcome(f) : f \in Faults}
    \cup {Outcome(Json(200, "OK", ListData(l))) :
            l \in {CategoryViews(AscSeq(categories)),
                   Reverse(CategoryViews(AscSeq(categories)))}}

\* POST /api/category
NewCategory(r, name) == [id |-> nextId, name |-> name, owner |-> r]

CreateCategoryOutcomes(r, name) ==
  {Outcome(f) : f \in Faults}
    \cup {Outcome(Json(400, "ERROR", MsgData("INVALID_DATA")))}
    \cup (IF nextId > MaxIds THEN {}
          ELSE {[raw |-> Json(200, "OK", RecData(CategoryView(NewCategory(r, name)))),
                 coupons |-> coupons,
                 categories |-> categories \cup {NewCategory(r, name)},
                 nextId |-> nextId + 1]})

\* GET /api/category/{id}
GetCategoryOutcomes(id) ==
  {Outcome(f) : f \in Faults}
    \cup (IF \E c \in categories : c.id = id
            THEN {Outcome(Json(200, "OK", RecData(CategoryView(c)))) :
                    c \in {x \in categories : x.id = id}}
            ELSE {Outcome(Json(200, "ERROR", NullData)),
                  Outcome(Json(404, "ERROR", MsgData("NOT_FOUND")))})

\* DELETE /api/category/{id}: answers 200 with a body or 204 without one
DeleteCategoryOutcomes(id) ==
  {Outcome(f) : f \in Faults}
    \cup {Outcome(Json(404, "ERROR", MsgData("NOT_FOUND")))}
    \cup {[raw |-> raw,
           coupons |-> coupons,
           categories |-> {c \in categories : c.id # id},
           nextId |-> nextId] : raw \in {Json(200, "OK", NullData), NoBody(204)}}

Apply(o) == /\ coupons' = o.coupons
            /\ categories' = o.categories
            /\ nextId' = o.nextId

\* ----------------------------------------------------------------- runs
\* the locals of a caller of ApiClient: the environment, the client, the call
\* being made, the caller's params object as the call leaves it, the requests
\* the transport was handed for the call, the transport's answer and the error
\* raised inside the call
NoCall == [method |-> "none", endpoint |-> <<>>, params |-> <<>>]
NoApi == [env |-> [API_BASE_URL |-> EnvUnset, API_TOKEN |-> EnvUnset], client |-> NoClient,
          call |-> NoCall, args |-> <<>>, sent |-> <<>>, raw |-> NetErr,
          raised |-> "none"]

\* nothing logged yet
NoLog == [helper |-> "none"]

NoLoc == [code |-> NoCode, id |-> NonExistentId, orig |-> NoCode, resp |-> NoResp,
          got |-> NoResp, arg |-> Undefined, held |-> FALSE, pick |-> NoPick,
          api |-> NoApi, flying |-> {}, ids |-> <<>>, sel |-> "", log |-> NoLog, ci |-> 1,
          list |-> NoList, ingested |-> 0]

Group1 == "G1"
PreCoupon(i) ==
  [id |-> i, code |-> SysCode(i),
   group |-> IF i = 1 THEN Obj(1, Group1) ELSE Str(Group1),
   reusable |-> TRUE, detail |-> "pre", amount |-> 0, owner |-> 0]

ToSet(s) == {s[i] : i \in 1 .. Len(s)}


Form(g, reusable, code, detail, amount) ==
  [group |-> g, is_reusable |-> reusable, custom_code |-> code, detail |-> detail,
   amount |-> amount]

CreatedIds(o) == {c.id : c \in o.coupons \ coupons} \cup {c.id : c \in o.categories \ categories}

\* a response that reports one created coupon: 200, "OK", data[0] present
Has200Ok(resp) == ~resp.thrown /\ resp.status = 200 /\ resp.dstatus = "OK"
HasRecord(resp) == resp.data.kind \in {"list", "rec"} /\ resp.data.recs # <<>>

\* (a variant that is not the code: the answer to the DELETE is not asserted)
DeleteUncheckedExpect(resp) == ~resp.thrown

\* expect(deleteResponse.status).toBe(200); expect(deleteResponse.data.status).toBe("OK")
DeleteExpect(resp) == Has200Ok(resp)

\* const tempCouponId = createdTempCoupon._id, with createdTempCoupon = data.data[0]
CreatedId(resp) == resp.data.recs[1]._id

\* (a variant that is not the code: cleanup placed at the end of the try body)
FinallyOnlyAfterPass(bodyOutcome) == bodyOutcome = "passed"

\* try { body } finally { cleanup }: the finally block runs however the body ended
RunsFinally(bodyOutcome) == TRUE

\* (a variant that is not the code: the deletion without its try/catch)
UncaughtCleanup(resp) == resp.thrown

\* try { await apiClient.delete(...) } catch (error) { logger.info(...) }:
\* nothing thrown by a cleanup deletion leaves the loop
CleanupEscapes(resp) == FALSE

\* ------------------------------------------------- negative coupon suite
NegTests == <<"NEG-001", "NEG-002", "NEG-003", "NEG-004", "NEG-005", "NEG-006",
              "NEG-007", "NEG-008">>

IndexOf(s, x) == CHOOSE i \in 1 .. Len(s) : s[i] = x

\* where the runner goes after test t: the next test it was asked to run, or
\* the end of the file (its afterAll hook, when it has one)
AfterTest(tests, t, end) ==
  IF IndexOf(tests, t) = Len(tests) THEN end
  ELSE <<tests[IndexOf(tests, t) + 1], "start">>

At(r, s, t, step) == suite[r].file = s /\ pc[r] = <<t, step>>

\* the body of the running test ended with outcome b
EndBody(r, t, b) ==
  /\ body' = [body EXCEPT ![r] = b]
  /\ IF RunsFinally(b)
       THEN /\ pc' = [pc EXCEPT ![r] = <<t, "finally">>]
            /\ result' = result
       ELSE /\ pc' = [pc EXCEPT ![r] = <<t, "end">>]
            /\ result' = [result EXCEPT ![r] = b]

Record(r, o, codes) ==
  /\ madeHere' = [madeHere EXCEPT ![r] = @ \cup CreatedIds(o)]
  /\ everMade' = [everMade EXCEPT ![r] = @ \cup CreatedIds(o)]
  /\ submitted' = [submitted EXCEPT ![r] = @ \cup codes]

NegBeforeAll(r) ==
  /\ At(r, "negative", "beforeAll", "start")
  /\ \E o \in ListCouponsOutcomes :
       LET response == ApiGet(o.raw)
           m == processCouponsData(testDataManager[r], Body(response))
       IN /\ Apply(o)
          /\ IF response.thrown
               THEN /\ pc' = [pc EXCEPT ![r] = <<"suite", "done">>]
                    /\ UNCHANGED couponVars
               ELSE /\ pc' = [pc EXCEPT ![r] = <<suite[r].tests[1], "start">>]
                    /\ IF response.status = 200 /\ response.dstatus = "OK"
                         THEN /\ testDataManager' = [testDataManager EXCEPT ![r] = m]
                              /\ extractedGroupIds' =
                                   [extractedGroupIds EXCEPT ![r] = MapGroupIds(getAllGroupIds(m))]
                              /\ existingCouponCodes' =
                                   [existingCouponCodes EXCEPT ![r] = getAllCouponCodes(m)]
                              /\ UNCHANGED <<testCouponsToCleanup, generatedCouponIds,
                                             generatedCouponCodes>>
                         ELSE UNCHANGED couponVars
  /\ UNCHANGED <<now, suite, loc, body, result, categoryVars, histVars>>

\* TC-NEG-001: create a reusable coupon with a fresh custom code
NEG001_Create(r) ==
  /\ At(r, "negative", "NEG-001", "start")
  /\ IF extractedGroupIds[r] = <<>>
       THEN /\ EndBody(r, "NEG-001", "skipped")
            /\ UNCHANGED <<now, backendVars, loc, couponVars, histVars>>
       ELSE \E t \in now .. MaxClock :
            LET testCode == <<"DUPLICATE_TEST_", t>>
                form == Form(extractedGroupIds[r][1], TRUE, testCode,
                             "Test Negativo - Cupon Inicial", 0)
            IN \E o \in CreateCouponOutcomes(r, form) :
                 LET initialResponse == ApiPost(o.raw) IN
                 /\ now' = t
                 /\ Apply(o)
                 /\ Record(r, o, {testCode})
                 /\ IF Has200Ok(initialResponse) /\ HasRecord(initialResponse)
                      THEN /\ testCouponsToCleanup' =
                                [testCouponsToCleanup EXCEPT
                                   ![r] = Append(@, initialResponse.data.recs[1]._id)]
                           /\ loc' = [loc EXCEPT ![r].code = testCode]
                           /\ pc' = [pc EXCEPT ![r] = <<"NEG-001", "duplicate">>]
                           /\ UNCHANGED <<body, result>>
                      ELSE /\ EndBody(r, "NEG-001", "failed")
                           /\ UNCHANGED <<loc, testCouponsToCleanup>>
                 /\ UNCHANGED <<testDataManager, extractedGroupIds, existingCouponCodes,
                                generatedCouponIds, generatedCouponCodes, delLog>>
  /\ UNCHANGED <<suite, categoryVars>>

NEG001_DuplicateExpect(resp) ==
  /\ ~resp.thrown
  /\ resp.status = 400
  /\ resp.dstatus = "ERROR"
  /\ resp.data = MsgData("COUPON_CODE_ALREADY_EXISTS")

\* TC-NEG-001: try to create a second reusable coupon with the same code
NEG001_Duplicate(r) ==
  /\ At(r, "negative", "NEG-001", "duplicate")
  /\ LET form == Form(extractedGroupIds[r][1], TRUE, loc[r].code,
                      "Test Negativo - Intento de Duplicacion", 0)
     IN \E o \in CreateCouponOutcomes(r, form) :
          LET duplicateResponse == ApiPost(o.raw) IN
          /\ Apply(o)
          /\ Record(r, o, {loc[r].code})
          /\ loc' = [loc EXCEPT ![r].resp = duplicateResponse]
          /\ EndBody(r, "NEG-001",
                     IF NEG001_DuplicateExpect(duplicateResponse) THEN "passed" ELSE "failed")
  /\ UNCHANGED <<now, suite, couponVars, categoryVars, delLog>>


\* (a variant that is not the code: the test without its code assertion)
NEG002_NoCodeExpect(createdCoupon, existingCode) == TRUE

\* TC-NEG-002: create a non-reusable coupon with a code that already exists
\* expect(createdCoupon.code).not.toBe(existingCode)
NEG002_CodeExpect(createdCoupon, existingCode) == createdCoupon.code # existingCode

NEG002_Create(r) ==
  /\ At(r, "negative", "NEG-002", "start")
  /\ IF existingCouponCodes[r] = <<>> \/ extractedGroupIds[r] = <<>>
       THEN /\ EndBody(r, "NEG-002", "skipped")
            /\ UNCHANGED <<backendVars, loc, couponVars, histVars>>
       ELSE LET existingCode == existingCouponCodes[r][1]
                form == Form(extractedGroupIds[r][1], FALSE, existingCode,
                             "Test Negativo - Cupon No Reutilizable con Codigo Existente", 0)
            IN \E o \in CreateCouponOutcomes(r, form) :
                 LET response == ApiPost(o.raw) IN
                 /\ Apply(o)
                 /\ Record(r, o, {existingCode})
                 /\ loc' = [loc EXCEPT ![r].resp = response, ![r].code = existingCode]
                 /\ IF Has200Ok(response) /\ HasRecord(response)
                      THEN /\ testCouponsToCleanup' =
                                [testCouponsToCleanup EXCEPT
                                   ![r] = Append(@, response.data.recs[1]._id)]
                           /\ EndBody(r, "NEG-002",
                                IF NEG002_CodeExpect(response.data.recs[1], existingCode)
                                  THEN "passed" ELSE "failed")
                      ELSE /\ EndBody(r, "NEG-002", "failed")
                           /\ UNCHANGED testCouponsToCleanup
                 /\ UNCHANGED <<testDataManager, extractedGroupIds, existingCouponCodes,
                                generatedCouponIds, generatedCouponCodes, delLog>>
  /\ UNCHANGED <<now, suite, categoryVars>>

\* TC-NEG-003 / TC-NEG-004: a create that must be rejected; nothing is tracked
NegRejectExpect(resp, statuses) ==
  ~resp.thrown /\ resp.status \in statuses /\ resp.dstatus = "ERROR"

NegRejectedCreate(r, t, form, statuses) ==
  /\ At(r, "negative", t, "start")
  /\ \E o \in CreateCouponOutcomes(r, form) :
       LET response == ApiPost(o.raw) IN
       /\ Apply(o)
       /\ Record(r, o, IF form.custom_code = NoCode THEN {} ELSE {form.custom_code})
       /\ loc' = [loc EXCEPT ![r].resp = response]
       /\ EndBody(r, t, IF NegRejectExpect(response, statuses) THEN "passed" ELSE "failed")
  /\ UNCHANGED <<now, suite, couponVars, categoryVars, delLog>>

NEG003_InvalidData(r) ==
  NegRejectedCreate(r, "NEG-003",
                    Form(Str(""), TRUE, <<"INVALID CODE WITH SPACES AND SPECIAL CHARS!", 0>>,
                         "Test Negativo - Datos Invalidos", 0),
                    {400, 500})

NEG004_UnknownGroup(r) ==
  NegRejectedCreate(r, "NEG-004",
                    Form(Str("000000000000000000000000"), TRUE, NoCode,
                         "Test Negativo - Group ID Inexistente", 0),
                    {200, 400, 404})

\* TC-NEG-005: create a coupon, then update it asking for an existing code
NEG005_Create(r) ==
  /\ At(r, "negative", "NEG-005", "start")
  /\ IF existingCouponCodes[r] = <<>> \/ extractedGroupIds[r] = <<>>
       THEN /\ EndBody(r, "NEG-005", "skipped")
            /\ UNCHANGED <<backendVars, loc, couponVars, histVars>>
       ELSE LET form == Form(extractedGroupIds[r][1], TRUE, <<"UPDATE_TEST_ORIGINAL", 0>>,
                             "Test de Actualizacion - Original", 0)
            IN \E o \in CreateCouponOutcomes(r, form) :
                 LET createResponse == ApiPost(o.raw) IN
                 /\ Apply(o)
                 /\ Record(r, o, {form.custom_code})
                 /\ IF Has200Ok(createResponse) /\ HasRecord(createResponse)
                      THEN /\ testCouponsToCleanup' =
                                [testCouponsToCleanup EXCEPT
                                   ![r] = Append(@, createResponse.data.recs[1]._id)]
                           /\ loc' = [loc EXCEPT ![r].id = createResponse.data.recs[1]._id,
                                                 ![r].orig = createResponse.data.recs[1].code,
                                                 ![r].code = existingCouponCodes[r][1]]
                           /\ pc' = [pc EXCEPT ![r] = <<"NEG-005", "update">>]
                           /\ UNCHANGED <<body, result>>
                      ELSE /\ EndBody(r, "NEG-005", "failed")
                           /\ UNCHANGED <<loc, testCouponsToCleanup>>
                 /\ UNCHANGED <<testDataManager, extractedGroupIds, existingCouponCodes,
                                generatedCouponIds, generatedCouponCodes, delLog>>
  /\ UNCHANGED <<now, suite, categoryVars>>

DetailDuplicado == "Test Negativo - Actualizacion con Codigo Duplicado"

\* (a variant that is not the code: only the status and the code are asserted)
NEG005_CodeOnlyExpect(resp, createdId, originalCode, existingCode) ==
  /\ Has200Ok(resp)
  /\ resp.data.kind = "rec"
  /\ resp.data.recs[1].code = originalCode
  /\ resp.data.recs[1].code # existingCode

NEG005_UpdateExpect(resp, createdId, originalCode, existingCode) ==
  /\ Has200Ok(resp)
  /\ resp.data.kind = "rec"
  /\ LET updatedCoupon == resp.data.recs[1] IN
       /\ updatedCoupon.code = originalCode
       /\ updatedCoupon.code # existingCode
       /\ updatedCoupon._id = createdId
       /\ updatedCoupon.detail = DetailDuplicado
       /\ updatedCoupon.amount = 20

NEG005_Update(r) ==
  /\ At(r, "negative", "NEG-005", "update")
  /\ LET form == Form(extractedGroupIds[r][1], TRUE, loc[r].code, DetailDuplicado, 20)
     IN \E o \in UpdateCouponOutcomes(loc[r].id, form) :
          LET response == ApiPost(o.raw) IN
          /\ Apply(o)
          /\ loc' = [loc EXCEPT ![r].resp = response]
          /\ EndBody(r, "NEG-005",
                     IF NEG005_UpdateExpect(response, loc[r].id, loc[r].orig, loc[r].code)
                       THEN "passed" ELSE "failed")
  /\ UNCHANGED <<now, suite, couponVars, categoryVars, histVars>>

\* TC-NEG-006: GET of an identifier that does not exist
NotFoundExpect(resp) ==
  ~resp.thrown /\ resp.status = 200 /\ resp.dstatus = "ERROR" /\ resp.data = NullData

NEG006_GetMissing(r) ==
  /\ At(r, "negative", "NEG-006", "start")
  /\ \E o \in GetCouponOutcomes(NonExistentId) :
       LET response == ApiGet(o.raw) IN
       /\ Apply(o)
       /\ loc' = [loc EXCEPT ![r].resp = response]
       /\ EndBody(r, "NEG-006", IF NotFoundExpect(response) THEN "passed" ELSE "failed")
  /\ UNCHANGED <<now, suite, couponVars, categoryVars, histVars>>

\* TC-NEG-007: search of a code that does not exist
NEG007_SearchMissing(r) ==
  /\ At(r, "negative", "NEG-007", "start")
  /\ \E o \in SearchCouponOutcomes(<<"CODIGO_QUE_NO_EXISTE_123", 0>>) :
       LET response == ApiGet(o.raw) IN
       /\ Apply(o)
       /\ loc' = [loc EXCEPT ![r].resp = response]
       /\ EndBody(r, "NEG-007", IF NotFoundExpect(response) THEN "passed" ELSE "failed")
  /\ UNCHANGED <<now, suite, couponVars, categoryVars, histVars>>

\* TC-NEG-008: DELETE of an identifier that does not exist
NEG008_Expect(resp) ==
  /\ ~resp.thrown
  /\ resp.status \in {200, 404}
  /\ resp.status = 200 => resp.dstatus = "ERROR"

NEG008_DeleteMissing(r) ==
  /\ At(r, "negative", "NEG-008", "start")
  /\ \E o \in DeleteCouponOutcomes(NonExistentId) :
       LET response == ApiDelete(o.raw) IN
       /\ Apply(o)
       /\ loc' = [loc EXCEPT ![r].resp = response]
       /\ delLog' = [delLog EXCEPT ![r] = Append(@, NonExistentId)]
       /\ EndBody(r, "NEG-008", IF NEG008_Expect(response) THEN "passed" ELSE "failed")
  /\ UNCHANGED <<now, suite, couponVars, categoryVars, madeHere, everMade, submitted>>

\* finally { for (const couponId of testCouponsToCleanup) { try {delete} catch {log} } }
NegFinally(r) ==
  /\ suite[r].file = "negative"
  /\ pc[r][2] = "finally"
  /\ IF loc[r].ci <= Len(testCouponsToCleanup[r])
       THEN \E o \in DeleteCouponOutcomes(testCouponsToCleanup[r][loc[r].ci]) :
              LET response == ApiDelete(o.raw) IN
              /\ Apply(o)
              /\ delLog' = [delLog EXCEPT ![r] = Append(@, testCouponsToCleanup[r][loc[r].ci])]
              /\ IF CleanupEscapes(response)
                   THEN /\ result' = [result EXCEPT ![r] = "failed"]
                        /\ pc' = [pc EXCEPT ![r] = <<pc[r][1], "end">>]
                        /\ loc' = loc
                   ELSE /\ loc' = [loc EXCEPT ![r].ci = @ + 1]
                        /\ UNCHANGED <<pc, result>>
       ELSE /\ result' = [result EXCEPT ![r] = body[r]]
            /\ pc' = [pc EXCEPT ![r] = <<pc[r][1], "end">>]
            /\ UNCHANGED <<backendVars, loc, delLog>>
  /\ UNCHANGED <<now, suite, body, couponVars, categoryVars, madeHere, everMade, submitted>>

\* the runner starts the next test of the file; each test declares a new
\* testCouponsToCleanup = []
NegNextTest(r) ==
  /\ suite[r].file = "negative"
  /\ pc[r][2] = "end"
  /\ pc' = [pc EXCEPT ![r] = AfterTest(suite[r].tests, pc[r][1], <<"suite", "done">>)]
  /\ loc' = [loc EXCEPT ![r] = NoLoc]
  /\ body' = [body EXCEPT ![r] = "running"]
  /\ result' = [result EXCEPT ![r] = "none"]
  /\ testCouponsToCleanup' = [testCouponsToCleanup EXCEPT ![r] = <<>>]
  /\ madeHere' = [madeHere EXCEPT ![r] = {}]
  /\ submitted' = [submitted EXCEPT ![r] = {}]
  /\ UNCHANGED <<now, backendVars, suite, testDataManager, extractedGroupIds,
                 existingCouponCodes, generatedCouponIds, generatedCouponCodes,
                 categoryVars, delLog, everMade>>

NegativeSuite(r) ==
  \/ NegBeforeAll(r)
  \/ NEG001_Create(r)
  \/ NEG001_Duplicate(r)
  \/ NEG002_Create(r)
  \/ NEG003_InvalidData(r)
  \/ NEG004_UnknownGroup(r)
  \/ NEG005_Create(r)
  \/ NEG005_Update(r)
  \/ NEG006_GetMissing(r)
  \/ NEG007_SearchMissing(r)
  \/ NEG008_DeleteMissing(r)
  \/ NegFinally(r)
  \/ NegNextTest(r)

\* ------------------------------------------- comprehensive coupon suite
\* (the tests that only read lists, COMP-002 .. COMP-010, COMP-016, COMP-017,
\* COMP-021 and COMP-022, change neither the ledgers nor the backend)
CompTests == <<"COMP-001", "COMP-011", "COMP-012", "COMP-013", "COMP-014", "COMP-015",
               "COMP-018", "COMP-019", "COMP-020", "COMP-999">>

SliceMod == 1000000
\* Date.now().toString().slice(-6)
Slice6(t) == t % SliceMod

\* a test without try/finally: the test ends where its body ends
EndTest(r, t, b) ==
  /\ body' = [body EXCEPT ![r] = b]
  /\ result' = [result EXCEPT ![r] = b]
  /\ pc' = [pc EXCEPT ![r] = <<t, "end">>]

\* (a variant that is not the code: the missing precondition fails the test)
FailOnMissing(r, t) ==
  /\ EndTest(r, t, "failed")
  /\ UNCHANGED <<now, backendVars, loc, couponVars, histVars>>

\* logger.info(...); test.skip(); return;
Skip(r, t) ==
  /\ EndTest(r, t, "skipped")
  /\ UNCHANGED <<now, backendVars, loc, couponVars, histVars>>

CompBeforeAll(r) ==
  /\ At(r, "comprehensive", "beforeAll", "start")
  /\ \E o \in ListCouponsOutcomes :
       LET response == ApiGet(o.raw)
           m == processCouponsData(testDataManager[r], Body(response))
       IN /\ Apply(o)
          /\ IF response.thrown
               THEN /\ pc' = [pc EXCEPT ![r] = <<"afterAll", "start">>]
                    /\ UNCHANGED couponVars
               ELSE /\ pc' = [pc EXCEPT ![r] = <<suite[r].tests[1], "start">>]
                    /\ IF response.status = 200 /\ response.dstatus = "OK"
                         THEN /\ testDataManager' = [testDataManager EXCEPT ![r] = m]
                              /\ extractedGroupIds' =
                                   [extractedGroupIds EXCEPT ![r] = MapGroupIds(getAllGroupIds(m))]
                              /\ UNCHANGED <<existingCouponCodes, testCouponsToCleanup,
                                             generatedCouponIds, generatedCouponCodes>>
                         ELSE UNCHANGED couponVars
  /\ UNCHANGED <<now, suite, loc, body, result, categoryVars, histVars>>

\* TC-CUPONES-COMP-001: list the coupons and feed them to the TestDataManager
COMP001_List(r) ==
  /\ At(r, "comprehensive", "COMP-001", "start")
  /\ \E o \in ListCouponsOutcomes :
       LET response == ApiGet(o.raw) IN
       /\ Apply(o)
       /\ IF Has200Ok(response) /\ response.data.kind = "list"
            THEN /\ testDataManager' =
                      [testDataManager EXCEPT ![r] = processCouponsData(@, Body(response))]
                 /\ EndTest(r, "COMP-001", "passed")
            ELSE /\ EndTest(r, "COMP-001", "failed")
                 /\ UNCHANGED testDataManager
  /\ UNCHANGED <<now, suite, loc, extractedGroupIds, existingCouponCodes,
                 testCouponsToCleanup, generatedCouponIds, generatedCouponCodes,
                 categoryVars, histVars>>

\* the asserts between the create call and the pushes onto the ledgers
COMP011_Expect(resp) == Has200Ok(resp) /\ resp.data.kind = "list" /\ resp.data.recs # <<>>
COMP012_Expect(resp, customCode) ==
  COMP011_Expect(resp) /\ resp.data.recs[1].code = customCode
COMP015_Expect(resp, customCode) ==
  Has200Ok(resp) /\ HasRecord(resp) /\ resp.data.recs[1].code = customCode

\* (a variant that is not the code: the identifier is not pushed)
PushGeneratedCodeOnly(r, createdCoupon) ==
  /\ generatedCouponCodes' =
       [generatedCouponCodes EXCEPT ![r] = Append(@, createdCoupon.code)]
  /\ generatedCouponIds' = generatedCouponIds

\* generatedCouponCodes.push(createdCoupon.code);
\* generatedCouponIds.push(createdCoupon._id);
PushGenerated(r, createdCoupon) ==
  /\ generatedCouponCodes' =
       [generatedCouponCodes EXCEPT ![r] = Append(@, createdCoupon.code)]
  /\ generatedCouponIds' =
       [generatedCouponIds EXCEPT ![r] = Append(@, createdCoupon._id)]

\* TC-CUPONES-COMP-011: non-reusable coupon, code chosen by the backend
COMP011_Create(r) ==
  /\ At(r, "comprehensive", "COMP-011", "start")
  /\ IF extractedGroupIds[r] = <<>>
       THEN Skip(r, "COMP-011")
       ELSE /\ \E o \in CreateCouponOutcomes(r,
                    Form(extractedGroupIds[r][1], FALSE, NoCode,
                         "Test Comprehensivo - Single Use Coupon", 0)) :
                 LET response == ApiPost(o.raw) IN
                 /\ Apply(o)
                 /\ Record(r, o, {})
                 /\ loc' = [loc EXCEPT ![r].resp = response]
                 /\ IF COMP011_Expect(response)
                      THEN /\ PushGenerated(r, response.data.recs[1])
                           /\ EndTest(r, "COMP-011", "passed")
                      ELSE /\ EndTest(r, "COMP-011", "failed")
                           /\ UNCHANGED <<generatedCouponCodes, generatedCouponIds>>
            /\ UNCHANGED <<now, testDataManager, extractedGroupIds, existingCouponCodes,
                           testCouponsToCleanup, delLog>>
  /\ UNCHANGED <<suite, categoryVars>>

\* TC-CUPONES-COMP-012: reusable coupon with the custom code COMP-TEST-<timestamp>
COMP012_Create(r) ==
  /\ At(r, "comprehensive", "COMP-012", "start")
  /\ IF extractedGroupIds[r] = <<>>
       THEN Skip(r, "COMP-012")
       ELSE \E t \in now .. MaxClock :
            LET customCode == <<"COMP-TEST-", Slice6(t)>> IN
            /\ now' = t
            /\ \E o \in CreateCouponOutcomes(r,
                    Form(extractedGroupIds[r][1], TRUE, customCode,
                         "Test Comprehensivo - Reusable Custom Coupon", 0)) :
                 LET response == ApiPost(o.raw) IN
                 /\ Apply(o)
                 /\ Record(r, o, {customCode})
                 /\ loc' = [loc EXCEPT ![r].resp = response, ![r].code = customCode]
                 /\ IF COMP012_Expect(response, customCode)
                      THEN /\ PushGenerated(r, response.data.recs[1])
                           /\ EndTest(r, "COMP-012", "passed")
                      ELSE /\ EndTest(r, "COMP-012", "failed")
                           /\ UNCHANGED <<generatedCouponCodes, generatedCouponIds>>
            /\ UNCHANGED <<testDataManager, extractedGroupIds, existingCouponCodes,
                           testCouponsToCleanup, delLog>>
  /\ UNCHANGED <<suite, categoryVars>>

\* TC-CUPONES-COMP-013: a second reusable coupon with generatedCouponCodes[0]
COMP013_Expect(resp, existingCode) ==
  /\ ~resp.thrown
  /\ resp.status \in {200, 400}
  /\ IF resp.status = 400
       THEN resp.dstatus = "ERROR"
       ELSE /\ resp.dstatus = "OK"
            /\ HasRecord(resp)
            /\ resp.data.recs[1].code # existingCode

COMP013_Duplicate(r) ==
  /\ At(r, "comprehensive", "COMP-013", "start")
  /\ IF generatedCouponCodes[r] = <<>> \/ extractedGroupIds[r] = <<>>
       THEN Skip(r, "COMP-013")
       ELSE LET existingCode == generatedCouponCodes[r][1] IN
            /\ \E o \in CreateCouponOutcomes(r,
                    Form(extractedGroupIds[r][1], TRUE, existingCode,
                         "Test Comprehensivo - Duplicate Code Attempt", 0)) :
                 LET response == ApiPost(o.raw) IN
                 /\ Apply(o)
                 /\ Record(r, o, {existingCode})
                 /\ loc' = [loc EXCEPT ![r].resp = response, ![r].code = existingCode]
                 /\ EndTest(r, "COMP-013",
                            IF COMP013_Expect(response, existingCode) THEN "passed" ELSE "failed")
                 /\ generatedCouponIds' =
                      [generatedCouponIds EXCEPT
                         ![r] = IF COMP013_Expect(response, existingCode) /\ response.status = 200
                                  THEN Append(@, response.data.recs[1]._id) ELSE @]
            /\ UNCHANGED <<now, testDataManager, extractedGroupIds, existingCouponCodes,
                           testCouponsToCleanup, generatedCouponCodes, delLog>>
  /\ UNCHANGED <<suite, categoryVars>>

\* TC-CUPONES-COMP-014: a create with invalid data; nothing is tracked
COMP014_InvalidData(r) ==
  /\ At(r, "comprehensive", "COMP-014", "start")
  /\ \E o \in CreateCouponOutcomes(r,
          Form(Str(""), TRUE, <<"INVALID CODE WITH SPACES!", 0>>,
               "Test Comprehensivo - Invalid Data", 0)) :
       LET response == ApiPost(o.raw) IN
       /\ Apply(o)
       /\ Record(r, o, {<<"INVALID CODE WITH SPACES!", 0>>})
       /\ loc' = [loc EXCEPT ![r].resp = response]
       /\ EndTest(r, "COMP-014",
                  IF NegRejectExpect(response, {400, 500}) THEN "passed" ELSE "failed")
  /\ UNCHANGED <<now, suite, couponVars, categoryVars, delLog>>

\* TC-CUPONES-COMP-015: reusable coupon with the custom code COMP-META-<timestamp>
COMP015_Create(r) ==
  /\ At(r, "comprehensive", "COMP-015", "start")
  /\ IF extractedGroupIds[r] = <<>>
       THEN Skip(r, "COMP-015")
       ELSE \E t \in now .. MaxClock :
            LET customCode == <<"COMP-META-", Slice6(t)>> IN
            /\ now' = t
            /\ \E o \in CreateCouponOutcomes(r,
                    Form(extractedGroupIds[r][1], TRUE, customCode,
                         "Test Comprehensivo - Cupon con metadatos", 0)) :
                 LET response == ApiPost(o.raw) IN
                 /\ Apply(o)
                 /\ Record(r, o, {customCode})
                 /\ loc' = [loc EXCEPT ![r].resp = response, ![r].code = customCode]
                 /\ IF COMP015_Expect(response, customCode)
                      THEN /\ PushGenerated(r, response.data.recs[1])
                           /\ EndTest(r, "COMP-015", "passed")
                      ELSE /\ EndTest(r, "COMP-015", "failed")
                           /\ UNCHANGED <<generatedCouponCodes, generatedCouponIds>>
            /\ UNCHANGED <<testDataManager, extractedGroupIds, existingCouponCodes,
                           testCouponsToCleanup, delLog>>
  /\ UNCHANGED <<suite, categoryVars>>

\* expect(status).toBe(200); expect(data.status).toBe("OK"); expect(data.data._id).toBe(id)
FoundExpect(resp, id) ==
  Has200Ok(resp) /\ resp.data.kind = "rec" /\ resp.data.recs[1]._id = id

\* TC-CUPONES-COMP-016: GET generatedCouponIds[0]
COMP016_Get(r) ==
  /\ At(r, "comprehensive", "COMP-016", "start")
  /\ IF generatedCouponIds[r] = <<>>
       THEN Skip(r, "COMP-016")
       ELSE LET couponId == generatedCouponIds[r][1] IN
            /\ \E o \in GetCouponOutcomes(couponId) :
                 LET response == ApiGet(o.raw) IN
                 /\ Apply(o)
                 /\ loc' = [loc EXCEPT ![r].resp = response, ![r].id = couponId]
                 /\ EndTest(r, "COMP-016",
                            IF FoundExpect(response, couponId) THEN "passed" ELSE "failed")
            /\ UNCHANGED <<now, couponVars, histVars>>
  /\ UNCHANGED <<suite, categoryVars>>

DetailActualizado == "Test Comprehensivo - Cupon Actualizado"
\* expect(updatedCoupon.detail).toContain("Actualizado")
ContainsActualizado(d) == d \in {DetailActualizado, "QA Test - Cupon Actualizado"}

\* (a variant that is not the code: the returned _id is not asserted)
UpdateNoIdExpect(resp, couponId) ==
  /\ Has200Ok(resp)
  /\ resp.data.kind = "rec"
  /\ ContainsActualizado(resp.data.recs[1].detail)
  /\ resp.data.recs[1].amount = 25

UpdateExpect(resp, couponId) ==
  /\ Has200Ok(resp)
  /\ resp.data.kind = "rec"
  /\ resp.data.recs[1]._id = couponId
  /\ ContainsActualizado(resp.data.recs[1].detail)
  /\ resp.data.recs[1].amount = 25

\* TC-CUPONES-COMP-018: update generatedCouponIds[0]
COMP018_Update(r) ==
  /\ At(r, "comprehensive", "COMP-018", "start")
  /\ IF generatedCouponIds[r] = <<>> \/ extractedGroupIds[r] = <<>>
       THEN Skip(r, "COMP-018")
       ELSE LET couponId == generatedCouponIds[r][1] IN
            /\ \E o \in UpdateCouponOutcomes(couponId,
                    Form(extractedGroupIds[r][1], TRUE, NoCode, DetailActualizado, 25)) :
                 LET response == ApiPost(o.raw) IN
                 /\ Apply(o)
                 /\ loc' = [loc EXCEPT ![r].resp = response, ![r].id = couponId]
                 /\ EndTest(r, "COMP-018",
                            IF UpdateExpect(response, couponId) THEN "passed" ELSE "failed")
            /\ UNCHANGED <<now, couponVars, histVars>>
  /\ UNCHANGED <<suite, categoryVars>>

COMP019_Expect(resp, originalCode, existingCode) ==
  /\ Has200Ok(resp)
  /\ resp.data.kind = "rec"
  /\ resp.data.recs[1].code = originalCode
  /\ resp.data.recs[1].code # existingCode

\* generatedCouponCodes[0], undefined when the list is empty
FirstCode(codes) == IF codes = <<>> THEN NoCode ELSE codes[1]

\* TC-CUPONES-COMP-019: update generatedCouponIds[0] asking for a code of the
\* TestDataManager's index
COMP019_UpdateDuplicate(r) ==
  /\ At(r, "comprehensive", "COMP-019", "start")
  /\ IF \/ generatedCouponIds[r] = <<>>
        \/ getAllCouponCodes(testDataManager[r]) = <<>>
        \/ extractedGroupIds[r] = <<>>
       THEN Skip(r, "COMP-019")
       ELSE LET couponIdToUpdate == generatedCouponIds[r][1]
                existingCode == getAllCouponCodes(testDataManager[r])[1]
            IN
            /\ \E o \in UpdateCouponOutcomes(couponIdToUpdate,
                    Form(extractedGroupIds[r][1], TRUE, existingCode,
                         "Test Comprehensivo - Intento de codigo duplicado", 20)) :
                 LET response == ApiPost(o.raw) IN
                 /\ Apply(o)
                 /\ loc' = [loc EXCEPT ![r].resp = response, ![r].id = couponIdToUpdate,
                                       ![r].code = existingCode]
                 /\ EndTest(r, "COMP-019",
                            IF COMP019_Expect(response, FirstCode(generatedCouponCodes[r]),
                                              existingCode)
                              THEN "passed" ELSE "failed")
            /\ UNCHANGED <<now, couponVars, histVars>>
  /\ UNCHANGED <<suite, categoryVars>>

\* TC-CUPONES-COMP-020: create a temporary coupon, read it, delete it, read it again
COMP020_Create(r) ==
  /\ At(r, "comprehensive", "COMP-020", "start")
  /\ IF extractedGroupIds[r] = <<>>
       THEN Skip(r, "COMP-020")
       ELSE \E t \in now .. MaxClock :
            LET tempCode == <<"COMP-DELETE-", Slice6(t)>> IN
            /\ now' = t
            /\ \E o \in CreateCouponOutcomes(r,
                    Form(extractedGroupIds[r][1], FALSE, tempCode,
                         "Test Comprehensivo - Cupon para eliminar", 0)) :
                 LET createResponse == ApiPost(o.raw) IN
                 /\ Apply(o)
                 /\ Record(r, o, {tempCode})
                 /\ IF Has200Ok(createResponse) /\ HasRecord(createResponse)
                      THEN /\ loc' = [loc EXCEPT ![r].id = CreatedId(createResponse),
                                                 ![r].code = tempCode]
                           /\ pc' = [pc EXCEPT ![r] = <<"COMP-020", "get">>]
                           /\ UNCHANGED <<body, result>>
                      ELSE /\ EndTest(r, "COMP-020", "failed")
                           /\ loc' = loc
            /\ UNCHANGED <<couponVars, delLog>>
  /\ UNCHANGED <<suite, categoryVars>>

COMP020_Get(r) ==
  /\ At(r, "comprehensive", "COMP-020", "get")
  /\ \E o \in GetCouponOutcomes(loc[r].id) :
       LET getResponse == ApiGet(o.raw) IN
       /\ Apply(o)
       /\ loc' = [loc EXCEPT ![r].got = getResponse]
       /\ IF FoundExpect(getResponse, loc[r].id)
            THEN /\ pc' = [pc EXCEPT ![r] = <<"COMP-020", "delete">>]
                 /\ UNCHANGED <<body, result>>
            ELSE EndTest(r, "COMP-020", "failed")
  /\ UNCHANGED <<now, suite, couponVars, categoryVars, histVars>>

COMP020_Delete(r) ==
  /\ At(r, "comprehensive", "COMP-020", "delete")
  /\ \E o \in DeleteCouponOutcomes(loc[r].id) :
       LET deleteResponse == ApiDelete(o.raw) IN
       /\ Apply(o)
       /\ delLog' = [delLog EXCEPT ![r] = Append(@, loc[r].id)]
       /\ IF DeleteExpect(deleteResponse)
            THEN /\ pc' = [pc EXCEPT ![r] = <<"COMP-020", "verify">>]
                 /\ UNCHANGED <<body, result>>
            ELSE EndTest(r, "COMP-020", "failed")
  /\ UNCHANGED <<now, suite, loc, couponVars, categoryVars, madeHere, everMade, submitted>>

COMP020_Verify(r) ==
  /\ At(r, "comprehensive", "COMP-020", "verify")
  /\ \E o \in GetCouponOutcomes(loc[r].id) :
       LET verifyResponse == ApiGet(o.raw) IN
       /\ Apply(o)
       /\ loc' = [loc EXCEPT ![r].resp = verifyResponse]
       /\ EndTest(r, "COMP-020", IF NotFoundExpect(verifyResponse) THEN "passed" ELSE "failed")
  /\ UNCHANGED <<now, suite, couponVars, categoryVars, histVars>>

\* TC-CUPONES-COMP-021: GET of an identifier that does not exist
COMP021_GetMissing(r) ==
  /\ At(r, "comprehensive", "COMP-021", "start")
  /\ \E o \in GetCouponOutcomes(NonExistentId) :
       LET response == ApiGet(o.raw) IN
       /\ Apply(o)
       /\ loc' = [loc EXCEPT ![r].resp = response]
       /\ EndTest(r, "COMP-021", IF NotFoundExpect(response) THEN "passed" ELSE "failed")
  /\ UNCHANGED <<now, suite, couponVars, categoryVars, histVars>>

\* TC-CUPONES-COMP-022: search of a code that does not exist
COMP022_SearchMissing(r) ==
  /\ At(r, "comprehensive", "COMP-022", "start")
  /\ \E o \in SearchCouponOutcomes(<<"CODIGO-INEXISTENTE-12345", 0>>) :
       LET response == ApiGet(o.raw) IN
       /\ Apply(o)
       /\ loc' = [loc EXCEPT ![r].resp = response]
       /\ EndTest(r, "COMP-022", IF NotFoundExpect(response) THEN "passed" ELSE "failed")
  /\ UNCHANGED <<now, suite, couponVars, categoryVars, histVars>>

\* TC-CUPONES-COMP-999: for (const couponId of generatedCouponIds) { try {delete} catch {log} }
COMP999_Cleanup(r) ==
  /\ At(r, "comprehensive", "COMP-999", "start")
  /\ IF loc[r].ci <= Len(generatedCouponIds[r])
       THEN \E o \in DeleteCouponOutcomes(generatedCouponIds[r][loc[r].ci]) :
              LET deleteResponse == ApiDelete(o.raw) IN
              /\ Apply(o)
              /\ delLog' = [delLog EXCEPT ![r] = Append(@, generatedCouponIds[r][loc[r].ci])]
              /\ IF CleanupEscapes(deleteResponse)
                   THEN /\ EndTest(r, "COMP-999", "failed")
                        /\ loc' = loc
                   ELSE /\ loc' = [loc EXCEPT ![r].ci = @ + 1]
                        /\ UNCHANGED <<pc, body, result>>
       ELSE /\ EndTest(r, "COMP-999", "passed")
            /\ UNCHANGED <<backendVars, loc, delLog>>
  /\ UNCHANGED <<now, suite, couponVars, categoryVars, madeHere, everMade, submitted>>

\* the runner starts the next test of the file, or the afterAll hook
CompNextTest(r) ==
  /\ suite[r].file = "comprehensive"
  /\ pc[r][2] = "end"
  /\ pc' = [pc EXCEPT ![r] = AfterTest(suite[r].tests, pc[r][1], <<"afterAll", "start">>)]
  /\ loc' = [loc EXCEPT ![r] = NoLoc]
  /\ body' = [body EXCEPT ![r] = "running"]
  /\ result' = [result EXCEPT ![r] = "none"]
  /\ madeHere' = [madeHere EXCEPT ![r] = {}]
  /\ submitted' = [submitted EXCEPT ![r] = {}]
  /\ UNCHANGED <<now, backendVars, suite, couponVars, categoryVars, delLog, everMade>>

\* test.afterAll: reads the manager and the generated codes, logs them
CompAfterAll(r) ==
  /\ At(r, "comprehensive", "afterAll", "start")
  /\ pc' = [pc EXCEPT ![r] = <<"suite", "done">>]
  /\ UNCHANGED <<now, backendVars, suite, loc, body, result, couponVars, categoryVars,
                 histVars>>

ComprehensiveSuite(r) ==
  \/ CompBeforeAll(r)
  \/ COMP001_List(r)
  \/ COMP011_Create(r)
  \/ COMP012_Create(r)
  \/ COMP013_Duplicate(r)
  \/ COMP014_InvalidData(r)
  \/ COMP015_Create(r)
  \/ COMP018_Update(r)
  \/ COMP019_UpdateDuplicate(r)
  \/ COMP020_Create(r)
  \/ COMP020_Get(r)
  \/ COMP020_Delete(r)
  \/ COMP020_Verify(r)
  \/ COMP999_Cleanup(r)
  \/ CompNextTest(r)
  \/ CompAfterAll(r)

\* ----------------------------------------- happy-path coupon suite (CRUD)
CrudTests == <<"TC-003", "TC-004", "TC-005", "TC-006", "TC-007", "TC-008", "TC-009">>

CrudBeforeAll(r) ==
  /\ At(r, "crud", "beforeAll", "start")
  /\ \E o \in ListCouponsOutcomes :
       LET response == ApiGet(o.raw)
           m == processCouponsData(testDataManager[r], Body(response))
       IN /\ Apply(o)
          /\ IF response.thrown
               THEN /\ pc' = [pc EXCEPT ![r] = <<"afterAll", "start">>]
                    /\ UNCHANGED couponVars
               ELSE /\ pc' = [pc EXCEPT ![r] = <<suite[r].tests[1], "start">>]
                    /\ IF response.status = 200 /\ response.dstatus = "OK"
                         THEN /\ testDataManager' = [testDataManager EXCEPT ![r] = m]
                              /\ extractedGroupIds' =
                                   [extractedGroupIds EXCEPT ![r] = MapGroupIds(getAllGroupIds(m))]
                              /\ UNCHANGED <<existingCouponCodes, testCouponsToCleanup,
                                             generatedCouponIds, generatedCouponCodes>>
                         ELSE UNCHANGED couponVars
  /\ UNCHANGED <<now, suite, loc, body, result, categoryVars, histVars>>

\* TC-CUPONES-003: non-reusable coupon, code chosen by the backend
TC003_Create(r) ==
  /\ At(r, "crud", "TC-003", "start")
  /\ IF extractedGroupIds[r] = <<>>
       THEN Skip(r, "TC-003")
       ELSE \E t \in now .. MaxClock :
            /\ now' = t
            /\ \E o \in CreateCouponOutcomes(r,
                    Form(extractedGroupIds[r][1], FALSE, NoCode,
                         "QA Test - Single Use Coupon", 0)) :
                 LET response == ApiPost(o.raw) IN
                 /\ Apply(o)
                 /\ Record(r, o, {})
                 /\ loc' = [loc EXCEPT ![r].resp = response]
                 /\ IF COMP011_Expect(response)
                      THEN /\ generatedCouponCodes' =
                                [generatedCouponCodes EXCEPT
                                   ![r] = Append(@, response.data.recs[1].code)]
                           /\ generatedCouponIds' =
                                [generatedCouponIds EXCEPT
                                   ![r] = Append(@, response.data.recs[1]._id)]
                           /\ EndTest(r, "TC-003", "passed")
                      ELSE /\ EndTest(r, "TC-003", "failed")
                           /\ UNCHANGED <<generatedCouponCodes, generatedCouponIds>>
            /\ UNCHANGED <<testDataManager, extractedGroupIds, existingCouponCodes,
                           testCouponsToCleanup, delLog>>
  /\ UNCHANGED <<suite, categoryVars>>

\* TC-CUPONES-004: reusable coupon with the custom code QA-REUSE-<timestamp>
TC004_Create(r) ==
  /\ At(r, "crud", "TC-004", "start")
  /\ IF extractedGroupIds[r] = <<>>
       THEN Skip(r, "TC-004")
       ELSE \E t \in now .. MaxClock :
            LET customCode == <<"QA-REUSE-", Slice6(t)>> IN
            /\ now' = t
            /\ \E o \in CreateCouponOutcomes(r,
                    Form(extractedGroupIds[r][1], TRUE, customCode,
                         "QA Test - Reusable Custom Coupon", 0)) :
                 LET response == ApiPost(o.raw) IN
                 /\ Apply(o)
                 /\ Record(r, o, {customCode})
                 /\ loc' = [loc EXCEPT ![r].resp = response, ![r].code = customCode]
                 /\ IF COMP015_Expect(response, customCode)
                      THEN /\ generatedCouponCodes' =
                                [generatedCouponCodes EXCEPT
                                   ![r] = Append(@, response.data.recs[1].code)]
                           /\ generatedCouponIds' =
                                [generatedCouponIds EXCEPT
                                   ![r] = Append(@, response.data.recs[1]._id)]
                           /\ EndTest(r, "TC-004", "passed")
                      ELSE /\ EndTest(r, "TC-004", "failed")
                           /\ UNCHANGED <<generatedCouponCodes, generatedCouponIds>>
            /\ UNCHANGED <<testDataManager, extractedGroupIds, existingCouponCodes,
                           testCouponsToCleanup, delLog>>
  /\ UNCHANGED <<suite, categoryVars>>

\* TC-CUPONES-005: list the coupons and feed them to the TestDataManager
TC005_List(r) ==
  /\ At(r, "crud", "TC-005", "start")
  /\ \E o \in ListCouponsOutcomes :
       LET response == ApiGet(o.raw) IN
       /\ Apply(o)
       /\ IF Has200Ok(response) /\ response.data.kind = "list"
            THEN /\ testDataManager' =
                      [testDataManager EXCEPT ![r] = processCouponsData(@, Body(response))]
                 /\ EndTest(r, "TC-005", "passed")
            ELSE /\ EndTest(r, "TC-005", "failed")
                 /\ UNCHANGED testDataManager
  /\ UNCHANGED <<now, suite, loc, extractedGroupIds, existingCouponCodes,
                 testCouponsToCleanup, generatedCouponIds, generatedCouponCodes,
                 categoryVars, histVars>>

\* listResponse.status === 200 && listResponse.data.status === "OK" &&
\* listResponse.data.data.length > 0
FallbackFound(listResponse) == Has200Ok(listResponse) /\ HasRecord(listResponse)

\* TC-CUPONES-006 / 007 / 008 choose their target: the first generated coupon,
\* or else the first coupon the backend lists
PickTarget(r, t, generated, field, next) ==
  /\ At(r, "crud", t, "start")
  /\ IF generated # <<>>
       THEN /\ loc' = [loc EXCEPT ![r] = IF field = "_id" THEN [@ EXCEPT !.id = generated[1]]
                                          ELSE [@ EXCEPT !.code = generated[1]]]
            /\ pc' = [pc EXCEPT ![r] = <<t, next>>]
            /\ UNCHANGED <<backendVars, body, result>>
       ELSE \E o \in ListCouponsOutcomes :
              LET listResponse == ApiGet(o.raw) IN
              /\ Apply(o)
              /\ IF listResponse.thrown
                   THEN /\ EndTest(r, t, "failed")
                        /\ loc' = loc
                   ELSE IF FallbackFound(listResponse)
                   THEN /\ loc' = [loc EXCEPT
                                     ![r] = IF field = "_id"
                                              THEN [@ EXCEPT !.id = listResponse.data.recs[1]._id]
                                              ELSE [@ EXCEPT !.code = listResponse.data.recs[1].code]]
                        /\ pc' = [pc EXCEPT ![r] = <<t, next>>]
                        /\ UNCHANGED <<body, result>>
                   ELSE /\ EndTest(r, t, "skipped")
                        /\ loc' = loc
  /\ UNCHANGED <<now, suite, couponVars, categoryVars, histVars>>

TC006_Pick(r) == PickTarget(r, "TC-006", generatedCouponIds[r], "_id", "read")

\* TC-CUPONES-006: GET /api/coupon/{couponId}
TC006_Read(r) ==
  /\ At(r, "crud", "TC-006", "read")
  /\ \E o \in GetCouponOutcomes(loc[r].id) :
       LET response == ApiGet(o.raw) IN
       /\ Apply(o)
       /\ loc' = [loc EXCEPT ![r].resp = response]
       /\ EndTest(r, "TC-006", IF FoundExpect(response, loc[r].id) THEN "passed" ELSE "failed")
  /\ UNCHANGED <<now, suite, couponVars, categoryVars, histVars>>

TC007_Pick(r) == PickTarget(r, "TC-007", generatedCouponCodes[r], "code", "search")

TC007_Expect(resp, couponCode) ==
  Has200Ok(resp) /\ resp.data.kind = "rec" /\ resp.data.recs[1].code = couponCode

\* TC-CUPONES-007: GET /api/coupon/{couponCode}/search
TC007_Search(r) ==
  /\ At(r, "crud", "TC-007", "search")
  /\ \E o \in SearchCouponOutcomes(loc[r].code) :
       LET response == ApiGet(o.raw) IN
       /\ Apply(o)
       /\ loc' = [loc EXCEPT ![r].resp = response]
       /\ EndTest(r, "TC-007", IF TC007_Expect(response, loc[r].code) THEN "passed" ELSE "failed")
  /\ UNCHANGED <<now, suite, couponVars, categoryVars, histVars>>

TC008_Pick(r) ==
  IF extractedGroupIds[r] = <<>>
    THEN /\ At(r, "crud", "TC-008", "start")
         /\ Skip(r, "TC-008")
         /\ UNCHANGED <<suite, categoryVars>>
    ELSE PickTarget(r, "TC-008", generatedCouponIds[r], "_id", "update")

\* TC-CUPONES-008: POST /api/coupon/{couponId}
TC008_Update(r) ==
  /\ At(r, "crud", "TC-008", "update")
  /\ \E o \in UpdateCouponOutcomes(loc[r].id,
          Form(extractedGroupIds[r][1], TRUE, NoCode, "QA Test - Cupon Actualizado", 25)) :
       LET response == ApiPost(o.raw) IN
       /\ Apply(o)
       /\ loc' = [loc EXCEPT ![r].resp = response]
       /\ EndTest(r, "TC-008", IF UpdateExpect(response, loc[r].id) THEN "passed" ELSE "failed")
  /\ UNCHANGED <<now, suite, couponVars, categoryVars, histVars>>

\* TC-CUPONES-009: create a temporary coupon, read it, delete it, read it again
TC009_Create(r) ==
  /\ At(r, "crud", "TC-009", "start")
  /\ IF extractedGroupIds[r] = <<>>
       THEN Skip(r, "TC-009")
       ELSE \E t \in now .. MaxClock :
            LET tempCode == <<"QA-DELETE-", Slice6(t)>> IN
            /\ now' = t
            /\ \E o \in CreateCouponOutcomes(r,
                    Form(extractedGroupIds[r][1], FALSE, tempCode,
                         "QA Test - Cupon para eliminar", 0)) :
                 LET createResponse == ApiPost(o.raw) IN
                 /\ Apply(o)
                 /\ Record(r, o, {tempCode})
                 /\ IF Has200Ok(createResponse) /\ HasRecord(createResponse)
                      THEN /\ loc' = [loc EXCEPT ![r].id = CreatedId(createResponse),
                                                 ![r].code = tempCode]
                           /\ pc' = [pc EXCEPT ![r] = <<"TC-009", "get">>]
                           /\ UNCHANGED <<body, result>>
                      ELSE /\ EndTest(r, "TC-009", "failed")
                           /\ loc' = loc
            /\ UNCHANGED <<couponVars, delLog>>
  /\ UNCHANGED <<suite, categoryVars>>

TC009_Get(r) ==
  /\ At(r, "crud", "TC-009", "get")
  /\ \E o \in GetCouponOutcomes(loc[r].id) :
       LET getResponse == ApiGet(o.raw) IN
       /\ Apply(o)
       /\ loc' = [loc EXCEPT ![r].got = getResponse]
       /\ IF Has200Ok(getResponse)
            THEN /\ pc' = [pc EXCEPT ![r] = <<"TC-009", "delete">>]
                 /\ UNCHANGED <<body, result>>
            ELSE EndTest(r, "TC-009", "failed")
  /\ UNCHANGED <<now, suite, couponVars, categoryVars, histVars>>

TC009_Delete(r) ==
  /\ At(r, "crud", "TC-009", "delete")
  /\ \E o \in DeleteCouponOutcomes(loc[r].id) :
       LET deleteResponse == ApiDelete(o.raw) IN
       /\ Apply(o)
       /\ delLog' = [delLog EXCEPT ![r] = Append(@, loc[r].id)]
       /\ IF DeleteExpect(deleteResponse)
            THEN /\ pc' = [pc EXCEPT ![r] = <<"TC-009", "verify">>]
                 /\ UNCHANGED <<body, result>>
            ELSE EndTest(r, "TC-009", "failed")
  /\ UNCHANGED <<now, suite, loc, couponVars, categoryVars, madeHere, everMade, submitted>>

TC009_Verify(r) ==
  /\ At(r, "crud", "TC-009", "verify")
  /\ \E o \in GetCouponOutcomes(loc[r].id) :
       LET verifyResponse == ApiGet(o.raw) IN
       /\ Apply(o)
       /\ loc' = [loc EXCEPT ![r].resp = verifyResponse]
       /\ EndTest(r, "TC-009", IF NotFoundExpect(verifyResponse) THEN "passed" ELSE "failed")
  /\ UNCHANGED <<now, suite, couponVars, categoryVars, histVars>>

CrudNextTest(r) ==
  /\ suite[r].file = "crud"
  /\ pc[r][2] = "end"
  /\ pc' = [pc EXCEPT ![r] = AfterTest(suite[r].tests, pc[r][1], <<"afterAll", "start">>)]
  /\ loc' = [loc EXCEPT ![r] = NoLoc]
  /\ body' = [body EXCEPT ![r] = "running"]
  /\ result' = [result EXCEPT ![r] = "none"]
  /\ madeHere' = [madeHere EXCEPT ![r] = {}]
  /\ submitted' = [submitted EXCEPT ![r] = {}]
  /\ UNCHANGED <<now, backendVars, suite, couponVars, categoryVars, delLog, everMade>>

\* test.afterAll: logs the manager's statistics and the generated codes
CrudAfterAll(r) ==
  /\ At(r, "crud", "afterAll", "start")
  /\ pc' = [pc EXCEPT ![r] = <<"suite", "done">>]
  /\ UNCHANGED <<now, backendVars, suite, loc, body, result, couponVars, categoryVars,
                 histVars>>

CrudSuite(r) ==
  \/ CrudBeforeAll(r)
  \/ TC003_Create(r)
  \/ TC004_Create(r)
  \/ TC005_List(r)
  \/ TC006_Pick(r)
  \/ TC006_Read(r)
  \/ TC007_Pick(r)
  \/ TC007_Search(r)
  \/ TC008_Pick(r)
  \/ TC008_Update(r)
  \/ TC009_Create(r)
  \/ TC009_Get(r)
  \/ TC009_Delete(r)
  \/ TC009_Verify(r)
  \/ CrudNextTest(r)
  \/ CrudAfterAll(r)

\* --------------------------------------------------------- category suite
\* (the tests that only read, TC-CATEGORIA-002, 005, 011, 014, 015, and the
\* tests on the media and image of categoryId, 006 .. 010 and 012, touch neither
\* categoryId nor createdCategoryIds)
CatTests == <<"CAT-001", "CAT-003", "CAT-004", "CAT-013", "CAT-999">>

\* test.beforeAll: looks for a mediaId inside try/catch; nothing escapes
CatBeforeAll(r) ==
  /\ At(r, "category", "beforeAll", "start")
  /\ pc' = [pc EXCEPT ![r] = <<suite[r].tests[1], "start">>]
  /\ UNCHANGED <<now, backendVars, suite, loc, body, result, couponVars, categoryVars,
                 histVars>>

\* TC-CATEGORIA-001: list the categories and keep the first one's _id
CAT001_List(r) ==
  /\ At(r, "category", "CAT-001", "start")
  /\ \E o \in ListCategoriesOutcomes :
       LET response == ApiGet(o.raw) IN
       /\ Apply(o)
       /\ IF ~response.thrown /\ response.status = 200 /\ response.data.kind = "list"
            THEN /\ categoryId' =
                      [categoryId EXCEPT ![r] = IF response.data.recs # <<>>
                                                  THEN response.data.recs[1]._id ELSE @]
                 /\ EndTest(r, "CAT-001", "passed")
            ELSE /\ EndTest(r, "CAT-001", "failed")
                 /\ UNCHANGED categoryId
  /\ UNCHANGED <<now, suite, loc, couponVars, createdCategoryIds, histVars>>

\* the asserts between the create call and the push onto createdCategoryIds
CAT003_Expect(resp, name) ==
  Has200Ok(resp) /\ resp.data.kind = "rec" /\ resp.data.recs[1].name = name

\* TC-CATEGORIA-003: create the category the later tests work on
CAT003_Create(r) ==
  /\ At(r, "category", "CAT-003", "start")
  /\ \E t \in now .. MaxClock :
       LET name == <<"Categoria de Prueba QA", Slice6(t)>> IN
       /\ now' = t
       /\ \E o \in CreateCategoryOutcomes(r, name) :
            LET response == ApiPost(o.raw) IN
            /\ Apply(o)
            /\ Record(r, o, {})
            /\ loc' = [loc EXCEPT ![r].resp = response]
            /\ IF CAT003_Expect(response, name)
                 THEN /\ categoryId' = [categoryId EXCEPT ![r] = response.data.recs[1]._id]
                      /\ createdCategoryIds' =
                           [createdCategoryIds EXCEPT
                              ![r] = Append(@, response.data.recs[1]._id)]
                      /\ EndTest(r, "CAT-003", "passed")
                 ELSE /\ EndTest(r, "CAT-003", "failed")
                      /\ UNCHANGED categoryVars
  /\ UNCHANGED <<suite, couponVars, delLog>>

\* TC-CATEGORIA-004: create a category with extra metadata
CAT004_Create(r) ==
  /\ At(r, "category", "CAT-004", "start")
  /\ \E t \in now .. MaxClock :
       LET name == <<"Categoria Meta QA", Slice6(t)>> IN
       /\ now' = t
       /\ \E o \in CreateCategoryOutcomes(r, name) :
            LET response == ApiPost(o.raw) IN
            /\ Apply(o)
            /\ Record(r, o, {})
            /\ loc' = [loc EXCEPT ![r].resp = response]
            /\ IF CAT003_Expect(response, name)
                 THEN /\ createdCategoryIds' =
                           [createdCategoryIds EXCEPT
                              ![r] = Append(@, response.data.recs[1]._id)]
                      /\ EndTest(r, "CAT-004", "passed")
                 ELSE /\ EndTest(r, "CAT-004", "failed")
                      /\ UNCHANGED createdCategoryIds
  /\ UNCHANGED <<suite, couponVars, categoryId, delLog>>

\* expect([404, 200]).toContain(status); on 200, expect(data.data).toBeNull()
CAT011_Expect(resp) ==
  /\ ~resp.thrown
  /\ resp.status \in {404, 200}
  /\ resp.status = 200 => resp.data = NullData

\* TC-CATEGORIA-011: GET of an identifier that does not exist
CAT011_GetMissing(r) ==
  /\ At(r, "category", "CAT-011", "start")
  /\ \E o \in GetCategoryOutcomes(NonExistentId) :
       LET response == ApiGet(o.raw) IN
       /\ Apply(o)
       /\ loc' = [loc EXCEPT ![r].resp = response]
       /\ EndTest(r, "CAT-011", IF CAT011_Expect(response) THEN "passed" ELSE "failed")
  /\ UNCHANGED <<now, suite, couponVars, categoryVars, histVars>>

\* TC-CATEGORIA-013, without a categoryId: create a temporary category first
CAT013_Temp(r) ==
  /\ At(r, "category", "CAT-013", "start")
  /\ IF categoryId[r] # NonExistentId
       THEN /\ pc' = [pc EXCEPT ![r] = <<"CAT-013", "get">>]
            /\ UNCHANGED <<backendVars, body, result, categoryVars, histVars>>
       ELSE \E o \in CreateCategoryOutcomes(r, <<"Categoria Temp para Duplicado", 0>>) :
              LET tempResponse == ApiPost(o.raw) IN
              /\ Apply(o)
              /\ Record(r, o, {})
              /\ delLog' = delLog
              /\ IF tempResponse.thrown
                   THEN /\ EndTest(r, "CAT-013", "failed")
                        /\ UNCHANGED categoryVars
                   ELSE IF tempResponse.status = 200
                   THEN IF tempResponse.data.kind = "rec"
                          THEN /\ categoryId' =
                                    [categoryId EXCEPT ![r] = tempResponse.data.recs[1]._id]
                               /\ createdCategoryIds' =
                                    [createdCategoryIds EXCEPT
                                       ![r] = Append(@, tempResponse.data.recs[1]._id)]
                               /\ pc' = [pc EXCEPT ![r] = <<"CAT-013", "get">>]
                               /\ UNCHANGED <<body, result>>
                          ELSE /\ EndTest(r, "CAT-013", "failed")
                               /\ UNCHANGED categoryVars
                   ELSE /\ EndTest(r, "CAT-013", "skipped")
                        /\ UNCHANGED categoryVars
  /\ UNCHANGED <<now, suite, loc, couponVars>>

\* TC-CATEGORIA-013: read the name of categoryId
CAT013_Get(r) ==
  /\ At(r, "category", "CAT-013", "get")
  /\ \E o \in GetCategoryOutcomes(categoryId[r]) :
       LET existingResponse == ApiGet(o.raw) IN
       /\ Apply(o)
       /\ IF existingResponse.thrown
            THEN /\ EndTest(r, "CAT-013", "failed")
                 /\ loc' = [loc EXCEPT ![r].got = existingResponse]
            ELSE IF existingResponse.status = 200
            THEN IF existingResponse.data.kind = "rec"
                   THEN /\ loc' = [loc EXCEPT ![r].got = existingResponse,
                                              ![r].code = existingResponse.data.recs[1].name]
                        /\ pc' = [pc EXCEPT ![r] = <<"CAT-013", "duplicate">>]
                        /\ UNCHANGED <<body, result>>
                   ELSE /\ EndTest(r, "CAT-013", "failed")
                        /\ loc' = [loc EXCEPT ![r].got = existingResponse]
            ELSE /\ EndTest(r, "CAT-013", "passed")
                 /\ loc' = [loc EXCEPT ![r].got = existingResponse]
  /\ UNCHANGED <<now, suite, couponVars, categoryVars, histVars>>

\* TC-CATEGORIA-013: create a category with the name just read
CAT013_Duplicate(r) ==
  /\ At(r, "category", "CAT-013", "duplicate")
  /\ \E o \in CreateCategoryOutcomes(r, loc[r].code) :
       LET response == ApiPost(o.raw) IN
       /\ Apply(o)
       /\ Record(r, o, {})
       /\ loc' = [loc EXCEPT ![r].resp = response]
       /\ IF response.thrown
            THEN /\ EndTest(r, "CAT-013", "failed")
                 /\ UNCHANGED createdCategoryIds
            ELSE IF response.status = 200
            THEN /\ createdCategoryIds' =
                      [createdCategoryIds EXCEPT
                         ![r] = IF response.data.kind = "rec"
                                  THEN Append(@, response.data.recs[1]._id) ELSE @]
                 /\ EndTest(r, "CAT-013", "passed")
            ELSE /\ EndTest(r, "CAT-013",
                            IF response.status \in {400, 422, 409} THEN "passed" ELSE "failed")
                 /\ UNCHANGED createdCategoryIds
  /\ UNCHANGED <<now, suite, couponVars, categoryId, delLog>>

\* TC-CATEGORIA-999: DELETE /api/category/{categoryId}
CAT999_Delete(r) ==
  /\ At(r, "category", "CAT-999", "start")
  /\ IF categoryId[r] = NonExistentId
       THEN /\ EndTest(r, "CAT-999", "skipped")
            /\ UNCHANGED <<backendVars, delLog>>
       ELSE \E o \in DeleteCategoryOutcomes(categoryId[r]) :
              LET response == ApiDelete(o.raw) IN
              /\ Apply(o)
              /\ delLog' = [delLog EXCEPT ![r] = Append(@, categoryId[r])]
              /\ IF ~response.thrown /\ response.status \in {200, 204}
                   THEN /\ pc' = [pc EXCEPT ![r] = <<"CAT-999", "verify">>]
                        /\ UNCHANGED <<body, result>>
                   ELSE EndTest(r, "CAT-999", "failed")
  /\ UNCHANGED <<now, suite, loc, couponVars, categoryVars, madeHere, everMade, submitted>>

\* createdCategoryIds.splice(createdCategoryIds.indexOf(categoryId), 1)
RemoveFirst(s, x) ==
  IF ~Includes(s, x) THEN s
  ELSE LET i == CHOOSE k \in 1 .. Len(s) : s[k] = x /\ \A j \in 1 .. k - 1 : s[j] # x
       IN SubSeq(s, 1, i - 1) \o SubSeq(s, i + 1, Len(s))

\* TC-CATEGORIA-999: read the category again, then take it off createdCategoryIds
CAT999_Verify(r) ==
  /\ At(r, "category", "CAT-999", "verify")
  /\ \E o \in GetCategoryOutcomes(categoryId[r]) :
       LET verifyResponse == ApiGet(o.raw) IN
       /\ Apply(o)
       /\ loc' = [loc EXCEPT ![r].resp = verifyResponse]
       /\ IF ~verifyResponse.thrown /\ verifyResponse.status \in {404, 200}
            THEN /\ createdCategoryIds' =
                      [createdCategoryIds EXCEPT ![r] = RemoveFirst(@, categoryId[r])]
                 /\ EndTest(r, "CAT-999", "passed")
            ELSE /\ EndTest(r, "CAT-999", "failed")
                 /\ UNCHANGED createdCategoryIds
  /\ UNCHANGED <<now, suite, couponVars, categoryId, histVars>>

CatNextTest(r) ==
  /\ suite[r].file = "category"
  /\ pc[r][2] = "end"
  /\ pc' = [pc EXCEPT ![r] = AfterTest(suite[r].tests, pc[r][1], <<"afterAll", "start">>)]
  /\ loc' = [loc EXCEPT ![r] = NoLoc]
  /\ body' = [body EXCEPT ![r] = "running"]
  /\ result' = [result EXCEPT ![r] = "none"]
  /\ madeHere' = [madeHere EXCEPT ![r] = {}]
  /\ submitted' = [submitted EXCEPT ![r] = {}]
  /\ UNCHANGED <<now, backendVars, suite, couponVars, categoryVars, delLog, everMade>>

\* test.afterAll: for (const catId of createdCategoryIds) { try {delete} catch {log} }
CatAfterAll(r) ==
  /\ At(r, "category", "afterAll", "start")
  /\ IF loc[r].ci <= Len(createdCategoryIds[r])
       THEN \E o \in DeleteCategoryOutcomes(createdCategoryIds[r][loc[r].ci]) :
              /\ Apply(o)
              /\ delLog' = [delLog EXCEPT ![r] = Append(@, createdCategoryIds[r][loc[r].ci])]
              /\ IF CleanupEscapes(ApiDelete(o.raw))
                   THEN pc' = [pc EXCEPT ![r] = <<"suite", "done">>]
                   ELSE pc' = pc
              /\ loc' = [loc EXCEPT ![r].ci = @ + 1]
       ELSE /\ pc' = [pc EXCEPT ![r] = <<"suite", "done">>]
            /\ UNCHANGED <<backendVars, loc, delLog>>
  /\ UNCHANGED <<now, suite, body, result, couponVars, categoryVars, madeHere, everMade,
                 submitted>>

CategorySuite(r) ==
  \/ CatBeforeAll(r)
  \/ CAT001_List(r)
  \/ CAT003_Create(r)
  \/ CAT004_Create(r)
  \/ CAT013_Temp(r)
  \/ CAT013_Get(r)
  \/ CAT013_Duplicate(r)
  \/ CAT999_Delete(r)
  \/ CAT999_Verify(r)
  \/ CatNextTest(r)
  \/ CatAfterAll(r)

\* ------------------------------------------- the TestDataManager on its own
\* the records a list may hold: the same group as a string and as an embedded
\* object, an embedded object without _id, no group; the same code twice, no code
SampleCoupon(g, c) == [_id |-> NonExistentId, code |-> c, group |-> g, detail |-> "sample",
                       amount |-> 0]
SampleCoupons ==
  {SampleCoupon(Str("G1"), SysCode(1)),
   SampleCoupon(Obj(0, "G1"), SysCode(2)),
   SampleCoupon(Str("G2"), SysCode(1)),
   SampleCoupon(Obj(0, ""), NoCode),
   SampleCoupon(Str(""), SysCode(2))}

\* every embedded object of a parsed list is an object of its own
Parsed(l) ==
  [i \in 1 .. Len(l) |->
     [l[i] EXCEPT !.group = IF l[i].group.t = "obj" THEN Obj(i, l[i].group.v) ELSE l[i].group]]

SampleLists == UNION {{Parsed(l) : l \in [1 .. k -> SampleCoupons]} : k \in 0 .. MaxList}

\* what a caller may hand to processCouponsData
ManagerInputs ==
  {Undefined}
    \cup {[defined |-> TRUE, status |-> "OK", data |-> d] :
            d \in {NoData, NullData, MsgData("INTERNAL_ERROR"),
                   RecData(SampleCoupon(Str("G1"), SysCode(1)))}}
    \cup {[defined |-> TRUE, status |-> "OK", data |-> ListData(l)] : l \in SampleLists}

\* testDataManager.processCouponsData(couponsResponse)
ManagerProcess(r) ==
  /\ suite[r].file = "manager"
  /\ \E couponsResponse \in ManagerInputs :
       /\ testDataManager' =
            [testDataManager EXCEPT ![r] = processCouponsData(@, couponsResponse)]
       /\ loc' = [loc EXCEPT ![r].arg = couponsResponse,
                             ![r].held = testDataManager[r].coupons # <<>>,
                             ![r].pick = NoPick,
                             ![r].list = IF Rejected(couponsResponse) THEN @ ELSE NoList,
                             ![r].ingested = IF Rejected(couponsResponse) THEN @
                                             ELSE Len(couponsResponse.data.recs)]
  /\ pc' = [pc EXCEPT ![r] = <<"manager", "processCouponsData">>]
  /\ UNCHANGED <<now, backendVars, suite, body, result, extractedGroupIds,
                 existingCouponCodes, testCouponsToCleanup, generatedCouponIds,
                 generatedCouponCodes, categoryVars, histVars>>

\* testDataManager.clear()
ManagerClear(r) ==
  /\ suite[r].file = "manager"
  /\ testDataManager' = [testDataManager EXCEPT ![r] = clear(@)]
  /\ loc' = [loc EXCEPT ![r].held = testDataManager[r].coupons # <<>>,
                        ![r].pick = NoPick,
                        ![r].list = NoList,
                        ![r].ingested = 0]
  /\ pc' = [pc EXCEPT ![r] = <<"manager", "clear">>]
  /\ UNCHANGED <<now, backendVars, suite, body, result, extractedGroupIds,
                 existingCouponCodes, testCouponsToCleanup, generatedCouponIds,
                 generatedCouponCodes, categoryVars, histVars>>

\* testDataManager.getRandomGroupId() / getRandomCouponCode() / getRandomCoupon()
ManagerRandom(r) ==
  /\ suite[r].file = "manager"
  /\ LET m == testDataManager[r]
     IN \/ \E randomIndex \in RandomIndexes(Len(m.groupIds)) \cup {0} :
             loc' = [loc EXCEPT ![r].pick = getRandomGroupId(m, randomIndex)]
        \/ \E randomIndex \in RandomIndexes(Len(m.couponCodes)) \cup {0} :
             loc' = [loc EXCEPT ![r].pick = getRandomCouponCode(m, randomIndex)]
        \/ \E randomIndex \in RandomIndexes(Len(m.coupons)) \cup {0} :
             loc' = [loc EXCEPT ![r].pick = getRandomCoupon(m, randomIndex)]
  /\ pc' = [pc EXCEPT ![r] = <<"manager", "getRandom">>]
  /\ UNCHANGED <<now, backendVars, suite, body, result, testDataManager, extractedGroupIds,
                 existingCouponCodes, testCouponsToCleanup, generatedCouponIds,
                 generatedCouponCodes, categoryVars, histVars>>

\* testDataManager.getAllGroupIds() / getAllCouponCodes() / getAllCoupons(): the
\* caller keeps the returned list until the manager is refilled or cleared
ManagerTake(r) ==
  /\ suite[r].file = "manager"
  /\ LET m == testDataManager[r]
     IN \/ loc' = [loc EXCEPT ![r].list = Spread("groupIds", getAllGroupIds(m))]
        \/ loc' = [loc EXCEPT ![r].list = Spread("couponCodes", getAllCouponCodes(m))]
        \/ loc' = [loc EXCEPT ![r].list = Spread("coupons", getAllCoupons(m))]
  /\ pc' = [pc EXCEPT ![r] = <<"manager", "getAll">>]
  /\ UNCHANGED <<now, backendVars, suite, body, result, testDataManager, extractedGroupIds,
                 existingCouponCodes, testCouponsToCleanup, generatedCouponIds,
                 generatedCouponCodes, categoryVars, histVars>>

\* an item of the caller's own, of the kind the list holds
Foreign(field) ==
  CASE field = "groupIds" -> Str("G9")
    [] field = "couponCodes" -> <<"OWN", 0>>
    [] OTHER -> SampleCoupon(Str("G9"), <<"OWN", 0>>)

\* how many times a caller edits a list it was returned
MaxEdits == 1

\* what the caller does to a list it holds: push, shift, reverse
Edits(list) ==
  {Reverse(list.items)}
    \cup (IF Len(list.items) <= MaxList THEN {Append(list.items, Foreign(list.of))} ELSE {})
    \cup (IF list.items # <<>> THEN {Tail(list.items)} ELSE {})

\* the caller changes the list it holds; an array it shares with the manager
\* changes under the manager's field too
ManagerMutate(r) ==
  /\ suite[r].file = "manager"
  /\ loc[r].list.of # "none"
  /\ loc[r].list.edits < MaxEdits
  /\ \E items \in Edits(loc[r].list) :
       /\ loc' = [loc EXCEPT ![r].list.items = items, ![r].list.edits = @ + 1]
       /\ testDataManager' =
            IF loc[r].list.shares
              THEN [testDataManager EXCEPT ![r][loc[r].list.of] = items]
              ELSE testDataManager
  /\ pc' = [pc EXCEPT ![r] = <<"manager", "mutate">>]
  /\ UNCHANGED <<now, backendVars, suite, body, result, extractedGroupIds,
                 existingCouponCodes, testCouponsToCleanup, generatedCouponIds,
                 generatedCouponCodes, categoryVars, histVars>>

\* ------------------------------------------------- ApiClient on its own
BaseUrl == "https://api.test"
Token == "secret"
EnvValues(v) == {EnvUnset, EnvVal(""), EnvVal(v)}
Environments == [API_BASE_URL : EnvValues(BaseUrl), API_TOKEN : EnvValues(Token)]

\* an endpoint without and with a query string of its own
Endpoints == {<<"/api/coupon">>, <<"/api/coupon", "?", "limit", "=", "5">>}
\* params objects a caller may pass to get
ParamsObjects ==
  {<<>>, <<<<"limit", "50">>>>, <<<<"token", "">>>>, <<<<"token", "other">>>>,
   <<<<"limit", "50">>, <<"token", "other">>>>}
Calls ==
  {[method |-> "GET", endpoint |-> e, params |-> p] : e \in Endpoints, p \in ParamsObjects}
    \cup {[method |-> m, endpoint |-> e, params |-> <<>>] :
            m \in {"POST", "DELETE"}, e \in Endpoints}

\* what the transport may answer: no answer, an answer without a JSON body, or
\* a JSON body under any transport status
TransportErrors == {"ECONNREFUSED", "TimeoutError"}
TransportAnswers ==
  {NetErr, NoBody(200), NoBody(204)}
    \cup {Json(st, ds, d) : st \in {200, 400, 404, 500}, ds \in {"OK", "ERROR"},
                            d \in {NullData, MsgData("NOT_FOUND"), ListData(<<>>)}}

RequestOf(client, call) ==
  IF call.method = "GET" THEN GetRequest(client, call.endpoint, call.params)
  ELSE IF call.method = "POST" THEN PostRequest(client, call.endpoint)
  ELSE DeleteRequest(client, call.endpoint)

ResultOf(call, raw) ==
  IF call.method = "GET" THEN ApiGet(raw)
  ELSE IF call.method = "POST" THEN ApiPost(raw)
  ELSE ApiDelete(raw)

ClientStep(r, from) == suite[r].file = "client" /\ pc[r][1] = "client" /\ pc[r][2] \in from

\* const apiClient = new ApiClient(request)
ClientNew(r) ==
  /\ ClientStep(r, {"new"})
  /\ \E env \in Environments :
       LET client == NewApiClient(env) IN
       /\ loc' = [loc EXCEPT ![r].api.env = env, ![r].api.client = client]
       /\ pc' = [pc EXCEPT ![r] = <<"client", IF client.made THEN "ready" ELSE "failed">>]
  /\ UNCHANGED <<now, backendVars, suite, body, result, couponVars, categoryVars, histVars>>

\* await apiClient.get(endpoint, params) / post(endpoint, data) / delete(endpoint),
\* up to the await of this.request.get / post / delete
ClientIssue(r) ==
  /\ ClientStep(r, {"ready", "returned", "thrown"})
  /\ \E call \in Calls :
       loc' = [loc EXCEPT ![r].api.call = call,
                          ![r].api.args = IF call.method = "GET"
                                            THEN ParamsAfterBuildUrl(loc[r].api.client, call.params)
                                            ELSE call.params,
                          ![r].api.sent = <<RequestOf(loc[r].api.client, call)>>,
                          ![r].api.raw = NetErr,
                          ![r].api.raised = "none",
                          ![r].resp = NoResp]
  /\ pc' = [pc EXCEPT ![r] = <<"client", "inflight">>]
  /\ UNCHANGED <<now, backendVars, suite, body, result, couponVars, categoryVars, histVars>>

\* the transport answers or fails; the call returns {status, data} or throws
ClientSettle(r) ==
  /\ ClientStep(r, {"inflight"})
  /\ \E raw \in TransportAnswers, transportError \in TransportErrors :
       IF Retries(raw) /\ Len(loc[r].api.sent) < 2
         THEN /\ loc' = [loc EXCEPT ![r].api.sent = Append(@, loc[r].api.sent[1])]
              /\ pc' = pc
         ELSE LET response == ResultOf(loc[r].api.call, raw) IN
              /\ loc' = [loc EXCEPT ![r].api.raw = raw,
                                     ![r].api.raised = Caught(raw, transportError),
                                     ![r].resp = response]
              /\ pc' = [pc EXCEPT ![r] =
                          <<"client", IF response.thrown THEN "thrown" ELSE "returned">>]
  /\ UNCHANGED <<now, backendVars, suite, body, result, couponVars, categoryVars, histVars>>

\* ------------------------------------- the API calls of a scenario, in order
\* Each call statement of a scenario: the method called, whether the statement
\* awaits the call, the statement executed next when the call returns what the
\* scenario expects, and the one executed when it throws or an expect fails
\* (0: the scenario ends).
Stmt(method, awaited, next, fail) ==
  [method |-> method, awaited |-> awaited, next |-> next, fail |-> fail]

SeqTests == <<"COMP-005", "NEG-001">>

\* (a variant that is not the code: the first call of each scenario not awaited)
ScriptUnawaited(t) ==
  IF t = "COMP-005"
    THEN <<Stmt("GET", FALSE, 2, 0), Stmt("GET", TRUE, 0, 0)>>
    ELSE <<Stmt("POST", FALSE, 2, 0), Stmt("POST", TRUE, 3, 3), Stmt("DELETE", TRUE, 0, 0)>>

\* TC-CUPONES-COMP-005: const responsePage1 = await apiClient.get(...);
\*                      const responsePage2 = await apiClient.get(...)
\* TC-NEG-001: await apiClient.post (initial), await apiClient.post (duplicate),
\*             finally: await apiClient.delete of the tracked fixture
Script(t) ==
  IF t = "COMP-005"
    THEN <<Stmt("GET", TRUE, 2, 0), Stmt("GET", TRUE, 0, 0)>>
    ELSE <<Stmt("POST", TRUE, 2, 0), Stmt("POST", TRUE, 3, 3), Stmt("DELETE", TRUE, 0, 0)>>

\* the scenario goes on with statement target, or ends
Advance(r, target) ==
  IF target = 0
    THEN /\ pc' = [pc EXCEPT ![r] = <<pc[r][1], "end">>]
         /\ result' = [result EXCEPT ![r] = IF body'[r] = "failed" THEN "failed" ELSE "passed"]
    ELSE /\ pc' = [pc EXCEPT ![r] = <<pc[r][1], "run">>]
         /\ result' = result

\* the scenario reaches a call statement: the request leaves; an awaited call
\* suspends the scenario
SeqIssue(r) ==
  /\ suite[r].file = "sequence"
  /\ pc[r][2] = "run"
  /\ LET stmt == Script(pc[r][1])[loc[r].ci] IN
     /\ body' = body
     /\ IF stmt.awaited
          THEN /\ loc' = [loc EXCEPT ![r].flying = @ \cup {loc[r].ci}]
               /\ pc' = [pc EXCEPT ![r] = <<pc[r][1], "await">>]
               /\ result' = result
          ELSE /\ loc' = [loc EXCEPT ![r].flying = @ \cup {loc[r].ci},
                                      ![r].ci = IF stmt.next = 0 THEN @ ELSE stmt.next]
               /\ Advance(r, stmt.next)
  /\ UNCHANGED <<now, backendVars, suite, couponVars, categoryVars, histVars>>

\* a call in flight gets its response or fails; the scenario that awaits it
\* resumes
SeqSettle(r) ==
  /\ suite[r].file = "sequence"
  /\ \E i \in loc[r].flying, expected \in BOOLEAN :
       LET stmt == Script(pc[r][1])[i] IN
       IF pc[r][2] = "await" /\ loc[r].ci = i
         THEN LET target == IF expected THEN stmt.next ELSE stmt.fail IN
              /\ body' = [body EXCEPT ![r] = IF expected THEN @ ELSE "failed"]
              /\ loc' = [loc EXCEPT ![r].flying = @ \ {i},
                                     ![r].ci = IF target = 0 THEN @ ELSE target]
              /\ Advance(r, target)
         ELSE /\ loc' = [loc EXCEPT ![r].flying = @ \ {i}]
              /\ UNCHANGED <<pc, body, result>>
  /\ UNCHANGED <<now, backendVars, suite, couponVars, categoryVars, histVars>>

\* the runner starts the next scenario
SeqNextTest(r) ==
  /\ suite[r].file = "sequence"
  /\ pc[r][2] = "end"
  /\ pc' = [pc EXCEPT ![r] = IF pc[r][1] = SeqTests[Len(SeqTests)] THEN <<"suite", "done">>
                              ELSE <<SeqTests[IndexOf(SeqTests, pc[r][1]) + 1], "run">>]
  /\ loc' = [loc EXCEPT ![r] = NoLoc]
  /\ body' = [body EXCEPT ![r] = "running"]
  /\ result' = [result EXCEPT ![r] = "none"]
  /\ UNCHANGED <<now, backendVars, suite, couponVars, categoryVars, histVars>>

\* ------------------------------------------------------------ media suite
\* (the scenarios of the media file that fetch GET /api/media with a query that
\* does not depend on the clock: TC-MEDIA-001, 002 and 003)
MediaTests == <<"TC-MEDIA-001", "TC-MEDIA-002", "TC-MEDIA-003">>

\* a media record; full: it carries every field the scenarios look for, each
\* of the type they look for
MediaItem(i, full) == [_id |-> i, full |-> full]
MediaLibrary == <<MediaItem(1, TRUE), MediaItem(2, FALSE)>>

\* the query of a GET /api/media: id 0 stands for no id filter
MediaQuery(id, limit) == [id |-> id, limit |-> limit]

Matching(q) == SelectSeq(MediaLibrary, LAMBDA m : q.id = 0 \/ m._id = q.id)
Take(s, n) == SubSeq(s, 1, IF n < Len(s) THEN n ELSE Len(s))

\* GET /api/media: a failure, or an OK whose payload is the matching records in
\* one of the two orders, nothing, one matching record on its own, or null
MediaOutcomes(q) ==
  {Outcome(f) : f \in Faults}
    \cup {Outcome(Json(200, "OK", d)) :
            d \in {ListData(l) : l \in {Take(Matching(q), q.limit),
                                        Take(Reverse(Matching(q)), q.limit), <<>>}}
                    \cup {RecData(m) : m \in ToSet(Matching(q))}
                    \cup {NullData}}

\* mediaData.forEach: if (media.id) ids.push(media.id); if (media._id) ids.push(media._id)
Pushes(recs) == [k \in 1 .. 2 * Len(recs) |-> recs[(k + 1) \div 2]._id]

\* extractedData.ids after beforeAll: filled only from a 200/OK answer whose
\* payload is a non-empty array, then [...new Set(ids)]
ExtractIds(resp) ==
  IF Has200Ok(resp) /\ IsArray(resp.data)
    THEN FirstOccurrences(Pushes(resp.data.recs))
    ELSE <<>>

\* test.beforeAll: the first page of media inside try/catch; nothing escapes
MediaBeforeAll(r) ==
  /\ At(r, "media", "beforeAll", "start")
  /\ \E o \in MediaOutcomes(MediaQuery(0, 50)) :
       /\ Apply(o)
       /\ loc' = [loc EXCEPT ![r].ids = ExtractIds(ApiGet(o.raw))]
  /\ pc' = [pc EXCEPT ![r] = <<suite[r].tests[1], "start">>]
  /\ UNCHANGED <<now, suite, body, result, couponVars, categoryVars, histVars>>

\* status 200, data defined, status OK, data.data defined and an array; the
\* required fields on the first record when there is one
MEDIA001_Expect(resp) ==
  /\ Has200Ok(resp)
  /\ IsArray(resp.data)
  /\ resp.data.recs # <<>> => resp.data.recs[1].full

\* TC-MEDIA-001: the first page of media
MEDIA001_List(r) ==
  /\ At(r, "media", "TC-MEDIA-001", "start")
  /\ \E o \in MediaOutcomes(MediaQuery(0, 50)) :
       LET response == ApiGet(o.raw) IN
       /\ Apply(o)
       /\ loc' = [loc EXCEPT ![r].resp = response]
       /\ EndTest(r, "TC-MEDIA-001", IF MEDIA001_Expect(response) THEN "passed" ELSE "failed")
  /\ UNCHANGED <<now, suite, couponVars, categoryVars, histVars>>

\* status 200 and OK; if (Array.isArray(data)) the record looked for is found;
\* else if (data && (data.id || data._id)) it is that record; else nothing
MEDIA002_Expect(resp, testId) ==
  /\ Has200Ok(resp)
  /\ IF IsArray(resp.data)
       THEN \E i \in 1 .. Len(resp.data.recs) : resp.data.recs[i]._id = testId
       ELSE resp.data.kind = "rec" => resp.data.recs[1]._id = testId

\* TC-MEDIA-002: filter by extractedData.ids[0]; skipped when there is none
MEDIA002_ById(r) ==
  /\ At(r, "media", "TC-MEDIA-002", "start")
  /\ IF loc[r].ids = <<>>
       THEN /\ EndTest(r, "TC-MEDIA-002", "skipped")
            /\ UNCHANGED <<backendVars, loc>>
       ELSE \E o \in MediaOutcomes(MediaQuery(loc[r].ids[1], 50)) :
              LET response == ApiGet(o.raw) IN
              /\ Apply(o)
              /\ loc' = [loc EXCEPT ![r].resp = response]
              /\ EndTest(r, "TC-MEDIA-002",
                         IF MEDIA002_Expect(response, loc[r].ids[1]) THEN "passed" ELSE "failed")
  /\ UNCHANGED <<now, suite, couponVars, categoryVars, histVars>>

\* status 200 and OK; response.data.data.length raises a TypeError on null or
\* undefined and is undefined on an object; the fields and their types on the
\* first element when length > 0 (the first character of a string has none)
MEDIA003_Expect(resp) ==
  /\ Has200Ok(resp)
  /\ resp.data.kind \in {"list", "rec"}
  /\ (IsArray(resp.data) /\ resp.data.recs # <<>>) => resp.data.recs[1].full

\* TC-MEDIA-003: one record, and its whole structure
MEDIA003_Structure(r) ==
  /\ At(r, "media", "TC-MEDIA-003", "start")
  /\ \E o \in MediaOutcomes(MediaQuery(0, 1)) :
       LET response == ApiGet(o.raw) IN
       /\ Apply(o)
       /\ loc' = [loc EXCEPT ![r].resp = response]
       /\ EndTest(r, "TC-MEDIA-003", IF MEDIA003_Expect(response) THEN "passed" ELSE "failed")
  /\ UNCHANGED <<now, suite, couponVars, categoryVars, histVars>>

\* the runner moves on; extractedData belongs to the file and outlives the test
MediaNextTest(r) ==
  /\ suite[r].file = "media"
  /\ pc[r][2] = "end"
  /\ pc' = [pc EXCEPT ![r] = AfterTest(suite[r].tests, pc[r][1], <<"suite", "done">>)]
  /\ loc' = [loc EXCEPT ![r] = [NoLoc EXCEPT !.ids = loc[r].ids]]
  /\ body' = [body EXCEPT ![r] = "running"]
  /\ result' = [result EXCEPT ![r] = "none"]
  /\ UNCHANGED <<now, backendVars, suite, couponVars, categoryVars, histVars>>

MediaSuite(r) ==
  \/ MediaBeforeAll(r)
  \/ MEDIA001_List(r)
  \/ MEDIA002_ById(r)
  \/ MEDIA003_Structure(r)
  \/ MediaNextTest(r)

\* --------------------------------------------------------- contract suite
\* (group-contract.spec.js, and the earlier contract file that reads the
\* environment itself when it is loaded)
ContractTests == <<"TC-CUPONES-001", "TC-CUPONES-002">>
LegacyTests == <<"TC-CUPONES-001">>

\* the value of a params entry: a string, or an object with entries of its own
Text(s) == [type |-> "string", v |-> s, entries |-> <<>>]
Nested(entries) == [type |-> "object", v |-> "", entries |-> entries]

\* String(value), as new URLSearchParams(params) applies it to every value
String(value) == IF value.type = "string" THEN value.v ELSE "[object Object]"
Stringified(params) == [i \in 1 .. Len(params) |-> <<params[i][1], String(params[i][2])>>]

\* the values a server reads for the query parameter key of a URL
QueryValues(url, key) ==
  {url[i + 3] : i \in {j \in 1 .. Len(url) - 3 :
                         url[j] \in {"?", "&"} /\ url[j + 1] = key /\ url[j + 2] = "="}}

\* apiClient.get("/api/coupon", { params: { subgroup: subgroupId } })
SubgroupParams(subgroupId) == <<<<"params", Nested(<<<<"subgroup", Text(subgroupId)>>>>)>>>>

\* a coupon group or subgroup with its number of coupons, and a coupon of a subgroup
Counted(id, total) == [_id |-> id, total |-> total]
Member(id, subgroup) == [_id |-> id, subgroup |-> subgroup]
Memberships == <<Member("c1", "S1"), Member("c2", "S2")>>

\* GET /api/coupon-group and GET /api/coupon-group/{id}: a failure, or the
\* groups (subgroups), none, some or all of them with coupons
CountedOutcomes(ids) ==
  {Outcome(f) : f \in Faults}
    \cup {Outcome(Json(200, "OK", ListData(l))) :
            l \in {<<>>, <<Counted(ids[1], 0)>>, <<Counted(ids[1], 0), Counted(ids[2], 2)>>,
                   <<Counted(ids[1], 1), Counted(ids[2], 1)>>}}

\* GET /api/coupon: a failure, or the coupons of the subgroups the URL names in
\* its subgroup parameter (every coupon when it names none), in one of the two orders
FilteredOutcomes(url) ==
  LET asked == QueryValues(url, "subgroup")
      found == SelectSeq(Memberships, LAMBDA c : asked = {} \/ c.subgroup \in asked)
  IN {Outcome(f) : f \in Faults}
       \cup {Outcome(Json(200, "OK", ListData(l))) : l \in {found, Reverse(found), <<>>}}

\* groupsBody.data.find((group) => group.coupon_total && group.coupon_total > 0)
FindCounted(recs) ==
  LET hits == {i \in 1 .. Len(recs) : recs[i].total > 0}
  IN IF hits = {} THEN "" ELSE recs[CHOOSE i \in hits : \A j \in hits : i <= j]._id

ContractAt(r, t, step) == suite[r].file \in {"contract", "legacy"} /\ pc[r] = <<t, step>>

\* the file is loaded: require("dotenv").config() fixes the environment; the
\* earlier file then throws when API_BASE_URL or API_TOKEN is missing, which
\* ends the run before any test
ContractLoad(r) ==
  /\ ContractAt(r, "load", "start")
  /\ \E env \in Environments :
       /\ loc' = [loc EXCEPT ![r].api.env = env]
       /\ pc' = [pc EXCEPT ![r] =
                   IF suite[r].file = "legacy"
                        /\ ConstructorThrows(OrEmpty(env.API_BASE_URL), OrEmpty(env.API_TOKEN))
                     THEN <<"suite", "aborted">>
                     ELSE <<suite[r].tests[1], "start">>]
  /\ UNCHANGED <<now, backendVars, suite, body, result, couponVars, categoryVars, histVars>>

\* expect(valid).toBe(true); expect(responseBody.status).toBe("OK");
\* expect(Array.isArray(responseBody.data)).toBe(true), after status 200
ListContractExpect(resp, valid) == valid /\ Has200Ok(resp) /\ IsArray(resp.data)

\* the earlier file, TC-CUPONES-001: request.get(apiUrl, {headers}) without ApiClient
LEGACY001_Groups(r) ==
  /\ suite[r].file = "legacy"
  /\ pc[r] = <<"TC-CUPONES-001", "start">>
  /\ \E o \in CountedOutcomes(<<"G1", "G2">>), valid \in BOOLEAN :
       LET env == loc[r].api.env
           url == <<OrEmpty(env.API_BASE_URL), "/api/coupon-group", "?", "token", "=",
                    OrEmpty(env.API_TOKEN)>>
           response == ApiResult(o.raw)
       IN /\ Apply(o)
          /\ loc' = [loc EXCEPT ![r].resp = response,
                                ![r].api.sent =
                                  Append(@, Request("GET", url, OrEmpty(env.API_TOKEN)))]
          /\ EndTest(r, "TC-CUPONES-001",
                     IF ListContractExpect(response, valid) THEN "passed" ELSE "failed")
  /\ UNCHANGED <<now, suite, couponVars, categoryVars, histVars>>

\* TC-CUPONES-001: the list of groups against its schema
CONTRACT001_Groups(r) ==
  /\ suite[r].file = "contract"
  /\ pc[r] = <<"TC-CUPONES-001", "start">>
  /\ LET client == NewApiClient(loc[r].api.env) IN
     IF ~client.made
       THEN /\ EndTest(r, "TC-CUPONES-001", "failed")
            /\ UNCHANGED <<backendVars, loc>>
       ELSE \E o \in CountedOutcomes(<<"G1", "G2">>), valid \in BOOLEAN :
              LET response == ApiGet(o.raw) IN
              /\ Apply(o)
              /\ loc' = [loc EXCEPT ![r].api.client = client,
                                    ![r].resp = response,
                                    ![r].api.sent =
                                      Append(@, GetRequest(client, <<"/api/coupon-group">>, <<>>))]
              /\ EndTest(r, "TC-CUPONES-001",
                         IF ListContractExpect(response, valid) THEN "passed" ELSE "failed")
  /\ UNCHANGED <<now, suite, couponVars, categoryVars, histVars>>

\* TC-CUPONES-002, step 1: the groups, and the first one that has coupons
CONTRACT002_Groups(r) ==
  /\ suite[r].file = "contract"
  /\ pc[r] = <<"TC-CUPONES-002", "start">>
  /\ LET client == NewApiClient(loc[r].api.env) IN
     IF ~client.made
       THEN /\ EndTest(r, "TC-CUPONES-002", "failed")
            /\ UNCHANGED <<backendVars, loc>>
       ELSE \E o \in CountedOutcomes(<<"G1", "G2">>) :
              LET response == ApiGet(o.raw)
                  sent == Append(loc[r].api.sent, GetRequest(client, <<"/api/coupon-group">>, <<>>))
              IN /\ Apply(o)
                 /\ IF ~(Has200Ok(response) /\ IsArray(response.data))
                      THEN /\ loc' = [loc EXCEPT ![r].api.client = client, ![r].api.sent = sent]
                           /\ EndTest(r, "TC-CUPONES-002", "failed")
                      ELSE IF FindCounted(response.data.recs) = ""
                        THEN /\ loc' = [loc EXCEPT ![r].api.client = client,
                                                   ![r].api.sent = sent]
                             /\ EndTest(r, "TC-CUPONES-002", "skipped")
                        ELSE /\ loc' = [loc EXCEPT ![r].api.client = client,
                                                   ![r].api.sent = sent,
                                                   ![r].sel = FindCounted(response.data.recs)]
                             /\ pc' = [pc EXCEPT ![r] = <<"TC-CUPONES-002", "detail">>]
                             /\ UNCHANGED <<body, result>>
  /\ UNCHANGED <<now, suite, couponVars, categoryVars, histVars>>

\* TC-CUPONES-002, step 2: the subgroups of that group, and the first one that
\* has coupons
CONTRACT002_Detail(r) ==
  /\ suite[r].file = "contract"
  /\ pc[r] = <<"TC-CUPONES-002", "detail">>
  /\ \E o \in CountedOutcomes(<<"S1", "S2">>) :
       LET response == ApiGet(o.raw)
           sent == Append(loc[r].api.sent,
                          GetRequest(loc[r].api.client, <<"/api/coupon-group/", loc[r].sel>>, <<>>))
       IN /\ Apply(o)
          /\ IF ~(Has200Ok(response) /\ IsArray(response.data))
               THEN /\ loc' = [loc EXCEPT ![r].api.sent = sent]
                    /\ EndTest(r, "TC-CUPONES-002", "failed")
               ELSE IF FindCounted(response.data.recs) = ""
                 THEN /\ loc' = [loc EXCEPT ![r].api.sent = sent]
                      /\ EndTest(r, "TC-CUPONES-002", "skipped")
                 ELSE /\ loc' = [loc EXCEPT ![r].api.sent = sent,
                                            ![r].sel = FindCounted(response.data.recs)]
                      /\ pc' = [pc EXCEPT ![r] = <<"TC-CUPONES-002", "coupons">>]
                      /\ UNCHANGED <<body, result>>
  /\ UNCHANGED <<now, suite, couponVars, categoryVars, histVars>>

\* status 200, status OK, an array; expect(firstCoupon.subgroup).toBe(subgroupId)
\* on the first coupon when there is one
CONTRACT002_Expect(resp, subgroupId) ==
  /\ Has200Ok(resp)
  /\ IsArray(resp.data)
  /\ resp.data.recs # <<>> => resp.data.recs[1].subgroup = subgroupId

\* TC-CUPONES-002, step 3: the coupons of that subgroup
CONTRACT002_Coupons(r) ==
  /\ suite[r].file = "contract"
  /\ pc[r] = <<"TC-CUPONES-002", "coupons">>
  /\ LET req == GetRequest(loc[r].api.client, <<"/api/coupon">>,
                           Stringified(SubgroupParams(loc[r].sel)))
     IN \E o \in FilteredOutcomes(req.url) :
          LET response == ApiGet(o.raw) IN
          /\ Apply(o)
          /\ loc' = [loc EXCEPT ![r].api.sent = Append(@, req), ![r].resp = response]
          /\ EndTest(r, "TC-CUPONES-002",
                     IF CONTRACT002_Expect(response, loc[r].sel) THEN "passed" ELSE "failed")
  /\ UNCHANGED <<now, suite, couponVars, categoryVars, histVars>>

\* the runner moves on; the environment belongs to the process
ContractNextTest(r) ==
  /\ suite[r].file \in {"contract", "legacy"}
  /\ pc[r][2] = "end"
  /\ pc' = [pc EXCEPT ![r] = AfterTest(suite[r].tests, pc[r][1], <<"suite", "done">>)]
  /\ loc' = [loc EXCEPT ![r] = [NoLoc EXCEPT !.api.env = loc[r].api.env]]
  /\ body' = [body EXCEPT ![r] = "running"]
  /\ result' = [result EXCEPT ![r] = "none"]
  /\ UNCHANGED <<now, backendVars, suite, couponVars, categoryVars, histVars>>

ContractSuite(r) ==
  \/ ContractLoad(r)
  \/ LEGACY001_Groups(r)
  \/ CONTRACT001_Groups(r)
  \/ CONTRACT002_Groups(r)
  \/ CONTRACT002_Detail(r)
  \/ CONTRACT002_Coupons(r)
  \/ ContractNextTest(r)

\* ------------------------------------------------- response-logging helpers
\* the expectedStatus argument: one status, or an array of statuses
One(status) == [array |-> FALSE, of |-> {status}]
Many(statuses) == [array |-> TRUE, of |-> statuses]

\* actualStatus !== expectedStatus: a number is never identical to an array
StatusDiffers(actualStatus, expectedStatus) ==
  expectedStatus.array \/ actualStatus \notin expectedStatus.of

\* response.data?.status || "N/A"
ActualDataStatus(resp) == IF resp.dstatus = "" THEN "N/A" ELSE resp.dstatus

\* the lines a helper writes to the log, and what it returns
Logged(helper, resp, expectedStatus, expectedDataStatus) ==
  [helper |-> helper, response |-> resp, expectedStatus |-> expectedStatus,
   expectedDataStatus |-> expectedDataStatus,
   lines |-> {"summary"}
               \cup (IF StatusDiffers(resp.status, expectedStatus)
                       THEN IF helper = "logResponseDetails"
                              THEN {"status", "payload"} ELSE {"status"}
                       ELSE {})
               \cup (IF ActualDataStatus(resp) # expectedDataStatus
                          /\ expectedDataStatus # "N/A"
                       THEN {"dataStatus"} ELSE {})
               \cup (IF helper = "logNegativeResponseDetails" /\ TruthyData(resp.data)
                       THEN {"message"} ELSE {}),
   returned |-> [actualStatus |-> resp.status, actualDataStatus |-> ActualDataStatus(resp)]]

\* the expectations the scenarios pass: the default, one status, or an array
ExpectedStatuses ==
  {One(200), One(404), Many({400, 500}), Many({200, 204}), Many({200, 400, 404})}
LoggedResponses ==
  {ApiResult(Json(st, ds, d)) : st \in {200, 204, 400, 404, 500}, ds \in {"OK", "ERROR", ""},
                                d \in {NullData, MsgData("COUPON_NOT_FOUND")}}

\* a scenario logs the response it got
LogCall(r) ==
  /\ suite[r].file = "logging"
  /\ \E helper \in {"logResponseDetails", "logNegativeResponseDetails"},
        resp \in LoggedResponses, expectedStatus \in ExpectedStatuses,
        expectedDataStatus \in {"OK", "ERROR", "N/A"} :
       loc' = [loc EXCEPT ![r].log = Logged(helper, resp, expectedStatus, expectedDataStatus)]
  /\ UNCHANGED <<now, backendVars, suite, pc, body, result, couponVars, categoryVars, histVars>>

\* ------------------------------------------------------ specifications
PreCategory(i) == [id |-> i, name |-> <<"pre", i>>, owner |-> 0]

\* the backend before the run: up to MaxPre entities of the kind the file works on
InitBackend(file) ==
  \E n \in 0 .. MaxPre :
    /\ coupons = IF file = "category" THEN {} ELSE {PreCoupon(i) : i \in 1 .. n}
    /\ categories = IF file = "category" THEN {PreCategory(i) : i \in 1 .. n} ELSE {}
    /\ nextId = n + 1

InitRuns ==
  /\ now = 0
  /\ pc = [r \in Runs |-> IF suite[r].file = "none" THEN <<"suite", "done">>
                          ELSE IF suite[r].file = "manager" THEN <<"manager", "new">>
                          ELSE IF suite[r].file = "client" THEN <<"client", "new">>
                          ELSE IF suite[r].file = "sequence" THEN <<SeqTests[1], "run">>
                          ELSE IF suite[r].file \in {"contract", "legacy"} THEN <<"load", "start">>
                          ELSE IF suite[r].file = "logging" THEN <<"logging", "call">>
                          ELSE <<"beforeAll", "start">>]
  /\ loc = [r \in Runs |-> NoLoc]
  /\ body = [r \in Runs |-> "running"]
  /\ result = [r \in Runs |-> "none"]
  /\ testDataManager = [r \in Runs |-> NewManager]
  /\ extractedGroupIds = [r \in Runs |-> <<>>]
  /\ existingCouponCodes = [r \in Runs |-> <<>>]
  /\ testCouponsToCleanup = [r \in Runs |-> <<>>]
  /\ generatedCouponIds = [r \in Runs |-> <<>>]
  /\ generatedCouponCodes = [r \in Runs |-> <<>>]
  /\ categoryId = [r \in Runs |-> NonExistentId]
  /\ createdCategoryIds = [r \in Runs |-> <<>>]
  /\ delLog = [r \in Runs |-> <<>>]
  /\ madeHere = [r \in Runs |-> {}]
  /\ everMade = [r \in Runs |-> {}]
  /\ submitted = [r \in Runs |-> {}]

\* one worker runs one spec file
Idle == [file |-> "none", tests |-> <<>>]
Execute(file, tests) == [file |-> file, tests |-> tests]

\* one worker executes the whole spec file; the other workers are idle
InitOne(file, tests) ==
  /\ InitBackend(file)
  /\ suite = [r \in Runs |-> IF r = 1 THEN Execute(file, tests) ELSE Idle]
  /\ InitRuns

InitNegative == InitOne("negative", NegTests)
NextNegative == \E r \in Runs : NegativeSuite(r)
SpecNegative == InitNegative /\ [][NextNegative]_vars

InitComprehensive == InitOne("comprehensive", CompTests)
NextComprehensive == \E r \in Runs : ComprehensiveSuite(r)
SpecComprehensive == InitComprehensive /\ [][NextComprehensive]_vars

InitCrud == InitOne("crud", CrudTests)
NextCrud == \E r \in Runs : CrudSuite(r)
SpecCrud == InitCrud /\ [][NextCrud]_vars

InitCategory == InitOne("category", CatTests)
NextCategory == \E r \in Runs : CategorySuite(r)
SpecCategory == InitCategory /\ [][NextCategory]_vars

\* every worker executes the same spec file at the same time (the browser
\* projects of the configuration), each running the tests a title filter selects
InitAll(file, tests) ==
  /\ InitBackend(file)
  /\ suite = [r \in Runs |-> Execute(file, tests)]
  /\ InitRuns

CrudFallbackTests == <<"TC-003", "TC-006", "TC-008">>
InitCrudPair == InitAll("crud", CrudFallbackTests)
NextCrudPair ==
  \E r \in Runs :
    \/ CrudBeforeAll(r)
    \/ TC003_Create(r)
    \/ TC006_Pick(r)
    \/ TC006_Read(r)
    \/ TC008_Pick(r)
    \/ TC008_Update(r)
    \/ CrudNextTest(r)
    \/ CrudAfterAll(r)
SpecCrudPair == InitCrudPair /\ [][NextCrudPair]_vars

NegUpdateTests == <<"NEG-005">>
InitNegativePair == InitAll("negative", NegUpdateTests)
NextNegativePair ==
  \E r \in Runs :
    \/ NegBeforeAll(r)
    \/ NEG005_Create(r)
    \/ NEG005_Update(r)
    \/ NegFinally(r)
    \/ NegNextTest(r)
SpecNegativePair == InitNegativePair /\ [][NextNegativePair]_vars

\* one worker executes the update scenarios of one of the two coupon files that
\* ask for an existing code
CompUpdateTests == <<"COMP-011", "COMP-018", "COMP-019">>
InitUpdate == InitOne("negative", NegUpdateTests) \/ InitOne("comprehensive", CompUpdateTests)
NextUpdate ==
  \E r \in Runs :
    \/ NegBeforeAll(r)
    \/ NEG005_Create(r)
    \/ NEG005_Update(r)
    \/ NegFinally(r)
    \/ NegNextTest(r)
    \/ CompBeforeAll(r)
    \/ COMP011_Create(r)
    \/ COMP018_Update(r)
    \/ COMP019_UpdateDuplicate(r)
    \/ CompNextTest(r)
    \/ CompAfterAll(r)
SpecUpdate == InitUpdate /\ [][NextUpdate]_vars

\* one worker executes the create / read / delete scenarios of the comprehensive
\* file while the other workers execute the delete scenario of the crud file
CompLifecycleTests == <<"COMP-011", "COMP-016", "COMP-020">>
CrudDeleteTests == <<"TC-009">>
InitLifecyclePair ==
  /\ InitBackend("comprehensive")
  /\ suite = [r \in Runs |-> IF r = 1 THEN Execute("comprehensive", CompLifecycleTests)
                                       ELSE Execute("crud", CrudDeleteTests)]
  /\ InitRuns
NextLifecyclePair ==
  \E r \in Runs :
    \/ CompBeforeAll(r)
    \/ COMP011_Create(r)
    \/ COMP016_Get(r)
    \/ COMP020_Create(r)
    \/ COMP020_Get(r)
    \/ COMP020_Delete(r)
    \/ COMP020_Verify(r)
    \/ CompNextTest(r)
    \/ CompAfterAll(r)
    \/ CrudBeforeAll(r)
    \/ TC009_Create(r)
    \/ TC009_Get(r)
    \/ TC009_Delete(r)
    \/ TC009_Verify(r)
    \/ CrudNextTest(r)
    \/ CrudAfterAll(r)
SpecLifecyclePair == InitLifecyclePair /\ [][NextLifecyclePair]_vars

\* every worker executes the category file at the same time, each running the
\* scenarios that set categoryId or use it
CatIdTests == <<"CAT-001", "CAT-003", "CAT-013", "CAT-999">>
InitCategoryPair == InitAll("category", CatIdTests)
NextCategoryPair ==
  \E r \in Runs :
    \/ CatBeforeAll(r)
    \/ CAT001_List(r)
    \/ CAT003_Create(r)
    \/ CAT013_Temp(r)
    \/ CAT013_Get(r)
    \/ CAT013_Duplicate(r)
    \/ CAT999_Delete(r)
    \/ CAT999_Verify(r)
    \/ CatNextTest(r)
    \/ CatAfterAll(r)
SpecCategoryPair == InitCategoryPair /\ [][NextCategoryPair]_vars

\* one worker executes the scenarios of one file that look up an identifier or a
\* code that was never created
NegMissingTests == <<"NEG-006", "NEG-007">>
CompMissingTests == <<"COMP-021", "COMP-022">>
CatMissingTests == <<"CAT-001", "CAT-011">>
InitMissing ==
  \/ InitOne("negative", NegMissingTests)
  \/ InitOne("comprehensive", CompMissingTests)
  \/ InitOne("category", CatMissingTests)
NextMissing ==
  \E r \in Runs :
    \/ NegBeforeAll(r)
    \/ NEG006_GetMissing(r)
    \/ NEG007_SearchMissing(r)
    \/ NegFinally(r)
    \/ NegNextTest(r)
    \/ CompBeforeAll(r)
    \/ COMP021_GetMissing(r)
    \/ COMP022_SearchMissing(r)
    \/ CompNextTest(r)
    \/ CompAfterAll(r)
    \/ CatBeforeAll(r)
    \/ CAT001_List(r)
    \/ CAT011_GetMissing(r)
    \/ CatNextTest(r)
    \/ CatAfterAll(r)
SpecMissing == InitMissing /\ [][NextMissing]_vars

\* a caller that holds a TestDataManager and calls it any number of times
InitManager ==
  /\ coupons = {}
  /\ categories = {}
  /\ nextId = 1
  /\ suite = [r \in Runs |-> IF r = 1 THEN Execute("manager", <<>>) ELSE Idle]
  /\ InitRuns
NextManager == \E r \in Runs : ManagerProcess(r) \/ ManagerClear(r)
SpecManager == InitManager /\ [][NextManager]_vars

\* a caller constructs an ApiClient and makes calls through it
InitClient ==
  /\ coupons = {}
  /\ categories = {}
  /\ nextId = 1
  /\ suite = [r \in Runs |-> IF r = 1 THEN Execute("client", <<>>) ELSE Idle]
  /\ InitRuns
NextClient == \E r \in Runs : ClientNew(r) \/ ClientIssue(r) \/ ClientSettle(r)
SpecClient == InitClient /\ [][NextClient]_vars

\* the same, with the getAll... calls and a caller that edits what they return
NextCopies ==
  \E r \in Runs : ManagerProcess(r) \/ ManagerClear(r) \/ ManagerTake(r) \/ ManagerMutate(r)
SpecCopies == InitManager /\ [][NextCopies]_vars

\* the same, with the getRandom... calls
NextRandom == \E r \in Runs : ManagerProcess(r) \/ ManagerClear(r) \/ ManagerRandom(r)
SpecRandom == InitManager /\ [][NextRandom]_vars

\* every worker executes the two scenarios, call by call
InitSequence ==
  /\ coupons = {}
  /\ categories = {}
  /\ nextId = 1
  /\ suite = [r \in Runs |-> Execute("sequence", SeqTests)]
  /\ InitRuns
NextSequence == \E r \in Runs : SeqIssue(r) \/ SeqSettle(r) \/ SeqNextTest(r)
SpecSequence == InitSequence /\ [][NextSequence]_vars

\* every worker executes the media file
InitMedia ==
  /\ coupons = {}
  /\ categories = {}
  /\ nextId = 1
  /\ suite = [r \in Runs |-> Execute("media", MediaTests)]
  /\ InitRuns
NextMedia == \E r \in Runs : MediaSuite(r)
SpecMedia == InitMedia /\ [][NextMedia]_vars

\* each worker executes one of the two contract files
InitContract ==
  /\ coupons = {}
  /\ categories = {}
  /\ nextId = 1
  /\ suite \in [Runs -> {Execute("contract", ContractTests), Execute("legacy", LegacyTests)}]
  /\ InitRuns
NextContract == \E r \in Runs : ContractSuite(r)
SpecContract == InitContract /\ [][NextContract]_vars

\* one worker logs responses through the helpers
InitLogging ==
  /\ coupons = {}
  /\ categories = {}
  /\ nextId = 1
  /\ suite = [r \in Runs |-> IF r = 1 THEN Execute("logging", <<>>) ELSE Idle]
  /\ InitRuns
NextLogging == \E r \in Runs : LogCall(r)
SpecLogging == InitLogging /\ [][NextLogging]_vars

\* a caller of ApiClient on its own, or one worker executing the negative suite
InitFailure == InitClient \/ InitNegative
NextFailure == NextClient \/ NextNegative
SpecFailure == InitFailure /\ [][NextFailure]_vars

\* one worker executes one of the four spec files
Init == InitNegative \/ InitComprehensive \/ InitCrud \/ InitCategory
Next == NextNegative \/ NextComprehensive \/ NextCrud \/ NextCategory
Spec == Init /\ [][Next]_vars

\* ------------------------------------------------------------- properties
Done(r) == pc[r] = <<"suite", "done">>
Ended(r) == pc[r][2] = "end"
Attempted(r, id) == Includes(delLog[r], id)
\* the identifiers run r holds in a fixture ledger
Tracked(r) == ToSet(generatedCouponIds[r]) \cup ToSet(createdCategoryIds[r])
                \cup ToSet(testCouponsToCleanup[r])
Exists(id) == \E c \in coupons \cup categories : c.id = id

\* C1: when a suite has finished, a DELETE has been issued for every identifier
\* it recorded as created (generatedCouponIds, createdCategoryIds,
\* testCouponsToCleanup).
C1_TrackedIdsDeletedAtEnd ==
  \A r \in Runs : Done(r) => \A id \in Tracked(r) : Attempted(r, id)

\* C2: no scenario ends having created an entity whose identifier is in none
\* of the fixture ledgers.
C2_CreatedIsTracked ==
  \A r \in Runs : Ended(r) => madeHere[r] \subseteq Tracked(r)

\* C3: every DELETE of the category suite targets an identifier returned by one
\* of that run's own successful creates, never an entity that existed before.
C3_DeletesOnlyOwnCreations ==
  \A r \in Runs : suite[r].file = "category" =>
    \A i \in 1 .. Len(delLog[r]) : delLog[r][i] \in everMade[r]

\* C4: in the negative coupon suite a scenario never ends, however its body
\* stopped (passed, failed, threw, skipped), without a DELETE having been
\* attempted for every identifier in testCouponsToCleanup.
C4_CleanupOnEveryExit ==
  \A r \in Runs :
    (suite[r].file = "negative" /\ Ended(r)) =>
      \A id \in ToSet(testCouponsToCleanup[r]) : Attempted(r, id)

\* a scenario of the negative suite whose body failed after a create was tracked,
\* ended, with the DELETE of the tracked identifier attempted
C4_Witness ==
  \E r \in Runs :
    /\ suite[r].file = "negative"
    /\ Ended(r)
    /\ body[r] = "failed"
    /\ testCouponsToCleanup[r] # <<>>
    /\ Attempted(r, testCouponsToCleanup[r][1])

\* C5: a cleanup deletion that throws or returns an error never changes the
\* outcome of its scenario (a negative scenario ends with the outcome of its
\* body, the cleanup scenario COMP-999 passes) and never prevents the deletion
\* attempts for the remaining tracked identifiers.
C5_CleanupFailureIsSwallowed ==
  \A r \in Runs :
    /\ (suite[r].file = "negative" /\ Ended(r)) =>
         /\ result[r] = body[r]
         /\ \A id \in ToSet(testCouponsToCleanup[r]) : Attempted(r, id)
    /\ (suite[r].file = "comprehensive" /\ pc[r] = <<"COMP-999", "end">>) =>
         /\ result[r] = "passed"
         /\ \A id \in ToSet(generatedCouponIds[r]) : Attempted(r, id)

\* COMP-999 ended with two tracked coupons, the first of which is still on the
\* backend: its deletion did not succeed, and the second was attempted
C5_Witness ==
  \E r \in Runs :
    /\ pc[r] = <<"COMP-999", "end">>
    /\ Len(generatedCouponIds[r]) >= 2
    /\ Exists(generatedCouponIds[r][1])
    /\ Attempted(r, generatedCouponIds[r][2])
    /\ result[r] = "passed"

\* C6: over a whole suite run no identifier receives two DELETE attempts, and
\* when the suite has finished its ledgers are empty.
C6_LedgerConsumedOnce ==
  \A r \in Runs :
    /\ \A i, j \in 1 .. Len(delLog[r]) : i # j => delLog[r][i] # delLog[r][j]
    /\ Done(r) => Tracked(r) = {}

\* C7: no scenario reads by id or updates an entity that a different,
\* concurrently running execution created.
C7_NoForeignFixture ==
  \A r \in Runs :
    (pc[r][1] \in {"TC-006", "TC-008"} /\ Ended(r) /\ loc[r].resp # NoResp) =>
      \A q \in Runs \ {r} : loc[r].id \notin everMade[q]

\* C8: two executions that run at the same time never submit the same custom
\* code in the creates of their running scenarios.
C8_DistinctCustomCodes ==
  \A r, q \in Runs : r # q => submitted[r] \cap submitted[q] = {}

\* C9: a scenario that creates a second reusable coupon with a code already
\* used passes only when the create was answered 400, ERROR,
\* COUPON_CODE_ALREADY_EXISTS.
C9_DuplicateReusableRejected ==
  \A r \in Runs :
    (pc[r] = <<"COMP-013", "end">> /\ result[r] = "passed") =>
      NEG001_DuplicateExpect(loc[r].resp)

\* two coupons on the backend never have the same code
UniqueCodes == \A c, d \in coupons : c.code = d.code => c = d

Answered(resp) == resp # NoResp /\ ~resp.thrown /\ resp.status # 500

\* C13: a GET by the identifier a create just returned (the temporary coupon of
\* COMP-020, the first generated coupon in COMP-016, the temporary category of
\* CAT-013), when it is answered, is answered 200, OK with the record of that
\* identifier, whatever the other executions do meanwhile.
C13_CreateThenGetRoundTrip ==
  \A r \in Runs :
    /\ (pc[r][1] = "COMP-020" /\ Answered(loc[r].got)) => FoundExpect(loc[r].got, loc[r].id)
    /\ (pc[r][1] = "COMP-016" /\ Answered(loc[r].resp)) => FoundExpect(loc[r].resp, loc[r].id)
    /\ (pc[r][1] = "CAT-013" /\ categoryId[r] \in madeHere[r] /\ Answered(loc[r].got)) =>
         FoundExpect(loc[r].got, categoryId[r])

\* C14: a scenario that GETs a single entity by an identifier or a code that was
\* never created (coupon by id, coupon by code, category by id) passes only
\* when the answer is transport 200, domain ERROR and a null payload.
C14_NeverCreatedIsNotFound ==
  \A r \in Runs :
    (pc[r][1] \in {"NEG-006", "NEG-007", "COMP-021", "COMP-022", "CAT-011"}
       /\ Ended(r) /\ result[r] = "passed") =>
      NotFoundExpect(loc[r].resp)

Processed(r) == pc[r] = <<"manager", "processCouponsData">>

\* C16: after processCouponsData(B) with a list response B, whatever was
\* processed before, the manager is in the state processCouponsData(B) leaves a
\* new manager in.
C16_ProcessReplaces ==
  \A r \in Runs :
    (Processed(r) /\ ~Rejected(loc[r].arg)) =>
      testDataManager[r] = IngestAll(NewManager, loc[r].arg.data.recs)

\* a list was processed by a manager that held another list's records: it holds
\* the records of the last list only
C16_Witness ==
  \E r \in Runs :
    /\ Processed(r)
    /\ ~Rejected(loc[r].arg)
    /\ loc[r].held
    /\ Len(loc[r].arg.data.recs) = 1
    /\ testDataManager[r].groupIds = <<Str("G2")>>
    /\ testDataManager[r].couponCodes = <<SysCode(1)>>

\* C17: a processCouponsData call whose argument is missing, has no data field
\* or carries data that is not a list leaves groupIds, couponCodes and coupons
\* exactly as they were before the call.
C17_InvalidResponseIsNoOp ==
  [][\A r \in Runs :
       (pc'[r] = <<"manager", "processCouponsData">> /\ Rejected(loc'[r].arg)) =>
         /\ testDataManager'[r].groupIds = testDataManager[r].groupIds
         /\ testDataManager'[r].couponCodes = testDataManager[r].couponCodes
         /\ testDataManager'[r].coupons = testDataManager[r].coupons]_vars

\* a manager that held records was handed a rejected argument and still holds
\* them
C17_Witness ==
  \E r \in Runs :
    /\ Processed(r)
    /\ Rejected(loc[r].arg)
    /\ loc[r].held
    /\ Len(testDataManager[r].coupons) = MaxList
    /\ testDataManager[r].groupIds # <<>>
    /\ testDataManager[r].couponCodes # <<>>

NoRepeat(s) == \A i, j \in 1 .. Len(s) : s[i] = s[j] => i = j

\* C18: whatever sequence of processCouponsData and clear calls was made, no
\* value occurs twice in the group-identifier index or in the coupon-code index,
\* and neither holds a falsy value.
C18_IndexesHaveNoDuplicates ==
  \A r \in Runs :
    LET groupIds == getAllGroupIds(testDataManager[r])
        couponCodes == getAllCouponCodes(testDataManager[r])
    IN /\ NoRepeat(groupIds)
       /\ NoRepeat(couponCodes)
       /\ \A i \in 1 .. Len(groupIds) : Truthy(groupIds[i])
       /\ \A i \in 1 .. Len(couponCodes) : couponCodes[i] # NoCode

\* the processed list names one group as a string in one record and as an
\* embedded object in another, repeats a code and has a record with a falsy
\* group: each index holds the one value once
C18_Witness ==
  \E r \in Runs :
    /\ Processed(r)
    /\ ~Rejected(loc[r].arg)
    /\ LET L == loc[r].arg.data.recs
       IN /\ \E i, j \in 1 .. Len(L) :
               /\ L[i].group = Str("G1")
               /\ L[j].group.t = "obj" /\ L[j].group.v = "G1"
               /\ L[i].code = SysCode(1)
          /\ \E i, j \in 1 .. Len(L) : i # j /\ L[i].code = L[j].code /\ L[i].code # NoCode
          /\ \E i \in 1 .. Len(L) : ~Truthy(L[i].group)
    /\ getAllGroupIds(testDataManager[r]) = <<Str("G1")>>
    /\ Len(getAllCouponCodes(testDataManager[r])) = 2

\* C19: after processCouponsData every element of the group-identifier index is
\* a resolved scalar identifier, never an object, whatever shape the group field
\* of each record has.
C19_IndexHoldsScalars ==
  \A r \in Runs :
    LET groupIds == getAllGroupIds(testDataManager[r])
    IN \A i \in 1 .. Len(groupIds) :
         /\ groupIds[i].t = "str"
         /\ MapGroupIds(groupIds)[i].t = "str"


\* C20: after processCouponsData(L), getAllGroupIds() is the sequence of the
\* distinct resolved group identifiers of L in order of first occurrence, and
\* getAllCouponCodes() the sequence of the distinct codes of L in order of first
\* occurrence.
C20_InsertionOrder ==
  \A r \in Runs :
    (Processed(r) /\ ~Rejected(loc[r].arg)) =>
      LET L == loc[r].arg.data.recs
          groups == SelectSeq([i \in 1 .. Len(L) |-> ResolveGroup(L[i].group)], Truthy)
          codes == SelectSeq([i \in 1 .. Len(L) |-> L[i].code], LAMBDA c : c # NoCode)
      IN /\ getAllGroupIds(testDataManager[r]) = FirstOccurrences(groups)
         /\ getAllCouponCodes(testDataManager[r]) = FirstOccurrences(codes)

\* the list names G1, then G2, then G1 again as an embedded object: the index is
\* G1, G2, and the codes are in the order the list first shows them
C20_Witness ==
  \E r \in Runs :
    /\ Processed(r)
    /\ ~Rejected(loc[r].arg)
    /\ LET L == loc[r].arg.data.recs
       IN /\ Len(L) = 3
          /\ L[1].group = Str("G1")
          /\ L[2].group = Str("G2")
          /\ L[3].group.t = "obj" /\ L[3].group.v = "G1"
    /\ getAllGroupIds(testDataManager[r]) = <<Str("G1"), Str("G2")>>
    /\ getAllCouponCodes(testDataManager[r]) = <<SysCode(1), SysCode(2)>>

Picked(r) == pc[r] = <<"manager", "getRandom">>

\* C21: getRandomGroupId returns null exactly when the group-identifier index
\* is empty at the call and otherwise an element of the index as it is at the
\* call; likewise getRandomCouponCode for the codes and getRandomCoupon for the
\* coupons.
C21_RandomFromCurrentIndex ==
  \A r \in Runs :
    Picked(r) =>
      LET p == loc[r].pick
          m == testDataManager[r]
      IN /\ p.fn = "getRandomGroupId" =>
              /\ p.null <=> getAllGroupIds(m) = <<>>
              /\ ~p.null => Includes(getAllGroupIds(m), p.group)
         /\ p.fn = "getRandomCouponCode" =>
              /\ p.null <=> getAllCouponCodes(m) = <<>>
              /\ ~p.null => Includes(getAllCouponCodes(m), p.code)
         /\ p.fn = "getRandomCoupon" =>
              /\ p.null <=> m.coupons = <<>>
              /\ ~p.null => Includes(m.coupons, p.coupon)

\* a list with group G1 only replaced a list that was held before, and the call
\* returned G1
C21_Witness ==
  \E r \in Runs :
    /\ Picked(r)
    /\ loc[r].held
    /\ ~Rejected(loc[r].arg)
    /\ getAllGroupIds(testDataManager[r]) = <<Str("G1")>>
    /\ loc[r].pick = [Returned("getRandomGroupId") EXCEPT !.group = Str("G1")]

Lacks(e) == ~e.defined \/ e.v = ""
ClientAt(r, step) == suite[r].file = "client" /\ pc[r] = <<"client", step>>

\* C22: constructing an ApiClient fails exactly when API_BASE_URL or API_TOKEN
\* is unset or empty, and every request handed to the transport comes from a
\* client that has both.
C22_ConstructorRequiresConfig ==
  \A r \in Runs :
    (suite[r].file = "client" /\ pc[r][2] # "new") =>
      LET env == loc[r].api.env IN
      /\ ClientAt(r, "failed") <=> (Lacks(env.API_BASE_URL) \/ Lacks(env.API_TOKEN))
      /\ ClientAt(r, "failed") => loc[r].api.sent = <<>>
      /\ \A i \in 1 .. Len(loc[r].api.sent) :
           /\ loc[r].api.sent[i].url[1] = env.API_BASE_URL.v
           /\ loc[r].api.sent[i].XAPIToken = env.API_TOKEN.v
           /\ loc[r].api.sent[i].url[1] # ""
           /\ loc[r].api.sent[i].XAPIToken # ""

\* with the base URL set and the token set to the empty string the constructor
\* threw and nothing was sent
C22_Witness ==
  \E r \in Runs :
    /\ ClientAt(r, "failed")
    /\ loc[r].api.env.API_BASE_URL = EnvVal(BaseUrl)
    /\ loc[r].api.env.API_TOKEN = EnvVal("")
    /\ loc[r].api.sent = <<>>

Settled(r) == suite[r].file = "client" /\ pc[r][2] \in {"returned", "thrown"}

C25_EnvelopeIsTransparent ==
  \A r \in Runs :
    (Settled(r) /\ ~loc[r].api.raw.neterr /\ loc[r].api.raw.json) =>
      /\ ClientAt(r, "returned")
      /\ ~loc[r].resp.thrown
      /\ loc[r].resp.status = loc[r].api.raw.status
      /\ loc[r].resp.dstatus = loc[r].api.raw.dstatus
      /\ loc[r].resp.data = loc[r].api.raw.data

\* a DELETE answered 404 with a body tagged "OK" came back as status 404 with
\* that body
C25_Witness ==
  \E r \in Runs :
    /\ ClientAt(r, "returned")
    /\ loc[r].api.call.method = "DELETE"
    /\ loc[r].api.raw = Json(404, "OK", NullData)
    /\ loc[r].resp.status = 404
    /\ loc[r].resp.dstatus = "OK"

C27_DeleteAnswered204Passes ==
  [][\A r \in Runs :
       (/\ At(r, "category", "CAT-999", "start")
        /\ pc'[r] # pc[r]
        /\ \E c \in categories : c.id = categoryId[r]
        /\ ~\E c \in categories' : c.id = categoryId[r])
       => pc'[r] = <<"CAT-999", "verify">>]_vars

\* C28: a scenario has at most one request in flight at any moment, and it
\* reaches a call statement only when no request of it is in flight.
C28_CallsAreSequential ==
  \A r \in Runs :
    suite[r].file = "sequence" =>
      /\ Cardinality(loc[r].flying) <= 1
      /\ pc[r][2] = "run" => loc[r].flying = {}

\* TC-NEG-001 awaits its second POST, the first one answered, while another
\* worker has a request of its own in flight
C28_Witness ==
  \E r, q \in Runs :
    /\ r # q
    /\ pc[r] = <<"NEG-001", "await">>
    /\ loc[r].flying = {2}
    /\ loc[q].flying # {}

\* the scenarios that take their group from extractedGroupIds[0]
NeedsGroupIds ==
  {"NEG-001", "NEG-002", "NEG-005", "COMP-011", "COMP-012", "COMP-013", "COMP-015",
   "COMP-018", "COMP-019", "COMP-020", "TC-003", "TC-004", "TC-008", "TC-009"}
Starved(r) == pc[r][1] \in NeedsGroupIds /\ extractedGroupIds[r] = <<>>

\* C29: a scenario that needs a group identifier while the snapshot taken by
\* beforeAll is empty does nothing but skip: its first step issues no request
\* and ends its body as skipped, it creates and tracks nothing, no DELETE is
\* sent for it, and it ends as skipped, never as failed.
C29_MissingPreconditionSkips ==
  /\ [](\A r \in Runs :
          Starved(r) =>
            /\ pc[r][2] \in {"start", "finally", "end"}
            /\ pc[r][2] # "start" => body[r] = "skipped"
            /\ Ended(r) => result[r] = "skipped"
            /\ madeHere[r] = {} /\ submitted[r] = {}
            /\ testCouponsToCleanup[r] = <<>>)
  /\ [][\A r \in Runs :
          (Starved(r) /\ pc'[r] # pc[r]) =>
            /\ backendVars' = backendVars
            /\ delLog'[r] = delLog[r]
            /\ loc'[r].resp = NoResp]_vars

\* the backend holds coupons but the initial list call failed: COMP-011 ended
\* skipped and no coupon was created
C29_Witness ==
  \E r \in Runs :
    /\ pc[r] = <<"COMP-011", "end">>
    /\ extractedGroupIds[r] = <<>>
    /\ result[r] = "skipped"
    /\ coupons # {}
    /\ everMade[r] = {}

\* C30: for every list endpoint, a response whose domain status is OK carries an
\* array, possibly empty and never null, whatever the filter: each scenario of
\* the media file that has passed on an OK answer to GET /api/media was handed
\* an array.
C30_OkListPayloadIsArray ==
  \A r \in Runs :
    (suite[r].file = "media" /\ pc[r][2] = "end" /\ result[r] = "passed"
       /\ loc[r].resp.dstatus = "OK")
      => IsArray(loc[r].resp.data)

\* C31: when the base URL or the token is missing, the run aborts before any
\* test executes: in a run of a contract file whose environment lacks one of
\* them, no test has run to an end and no request has been handed to the
\* transport.
C31_MissingConfigAbortsRun ==
  \A r \in Runs :
    (suite[r].file \in {"contract", "legacy"} /\ pc[r] # <<"load", "start">>
       /\ (Lacks(loc[r].api.env.API_BASE_URL) \/ Lacks(loc[r].api.env.API_TOKEN)))
      => /\ pc[r][2] # "end"
         /\ result[r] = "none"
         /\ loc[r].api.sent = <<>>

\* C32: get serializes every entry of the params it is given as a query
\* parameter carrying that entry's value: the list request of the
\* coupons-by-subgroup scenario carries subgroup = the selected subgroup.
C32_SubgroupIsSentAsQuery ==
  \A r \in Runs :
    (suite[r].file = "contract" /\ pc[r] = <<"TC-CUPONES-002", "end">>
       /\ Len(loc[r].api.sent) = 3)
      => QueryValues(loc[r].api.sent[3].url, "subgroup") = {loc[r].sel}

\* C33: logResponseDetails and logNegativeResponseDetails report an unexpected
\* transport status exactly when the actual status is not among the expected
\* statuses, whether the expectation is one status or a set of statuses.
C33_ReportsExactlyTheUnexpected ==
  \A r \in Runs :
    (suite[r].file = "logging" /\ loc[r].log.helper # "none") =>
      ("status" \in loc[r].log.lines
         <=> loc[r].log.response.status \notin loc[r].log.expectedStatus.of)

C35_GetLeavesParamsUnchanged ==
  \A r \in Runs :
    (suite[r].file = "client" /\ pc[r][2] \in {"inflight", "returned", "thrown"}
       /\ loc[r].api.call.method = "GET")
      => loc[r].api.args = loc[r].api.call.params

\* C36: the snapshot taken in beforeAll stays valid for the whole suite: when a
\* scenario of the negative suite is about to submit existingCouponCodes[0] as
\* an already-existing code and extractedGroupIds[0] as a group, a coupon with
\* that code and a coupon of that group exist on the backend.
C36_SnapshotStaysValid ==
  \A r \in Runs :
    ((At(r, "negative", "NEG-002", "start") \/ At(r, "negative", "NEG-005", "start")
        \/ At(r, "negative", "NEG-005", "update"))
       /\ existingCouponCodes[r] # <<>> /\ extractedGroupIds[r] # <<>>)
      => /\ \E c \in coupons : c.code = existingCouponCodes[r][1]
         /\ \E c \in coupons : ResolveGroup(c.group) = extractedGroupIds[r][1]

\* C37: getAllGroupIds, getAllCouponCodes and getAllCoupons return copies: a
\* caller that pushes to, shifts or reverses a list it was returned changes
\* neither the manager's indexes nor what the accessors and getStats return
\* afterwards.
C37_ReturnedListsAreCopies ==
  [][\A r \in Runs :
       (suite[r].file = "manager" /\ loc[r].list.of # "none"
          /\ loc'[r].list.of = loc[r].list.of
          /\ loc'[r].list.items # loc[r].list.items) =>
         /\ testDataManager'[r] = testDataManager[r]
         /\ getAllGroupIds(testDataManager'[r]) = getAllGroupIds(testDataManager[r])
         /\ getAllCouponCodes(testDataManager'[r]) = getAllCouponCodes(testDataManager[r])
         /\ getAllCoupons(testDataManager'[r]) = getAllCoupons(testDataManager[r])
         /\ getStats(testDataManager'[r]) = getStats(testDataManager[r])]_vars

\* the caller has edited a list it was returned by a manager that holds groups:
\* the caller's list and the manager's index differ
C37_Witness ==
  \E r \in Runs :
    /\ pc[r] = <<"manager", "mutate">>
    /\ loc[r].list.of = "groupIds"
    /\ Len(testDataManager[r].groupIds) = 2
    /\ loc[r].list.items = Reverse(testDataManager[r].groupIds)

\* C38: after any sequence of processCouponsData and clear calls, getStats()
\* reports as totalCoupons the number of records of the last ingested list (0
\* after clear), as uniqueGroupIds and uniqueCouponCodes the lengths of
\* getAllGroupIds() and getAllCouponCodes(), and neither exceeds totalCoupons.
C38_StatsMatchIndexes ==
  \A r \in Runs :
    suite[r].file = "manager" =>
      LET stats == getStats(testDataManager[r])
      IN /\ stats.totalCoupons = loc[r].ingested
         /\ stats.uniqueGroupIds = Len(getAllGroupIds(testDataManager[r]))
         /\ stats.uniqueCouponCodes = Len(getAllCouponCodes(testDataManager[r]))
         /\ stats.uniqueGroupIds <= stats.totalCoupons
         /\ stats.uniqueCouponCodes <= stats.totalCoupons

\* a list of three records with one group and two codes was ingested by a manager
\* that held another list, and an invalid response was handed over after it
C38_Witness ==
  \E r \in Runs :
    /\ Processed(r)
    /\ Rejected(loc[r].arg)
    /\ loc[r].held
    /\ getStats(testDataManager[r]) =
         [totalCoupons |-> MaxList, uniqueGroupIds |-> 1, uniqueCouponCodes |-> 2]
====
